---- MODULE Spec2Model ----
(***************************************************************************)
(* A state-machine model of Modules/_threadmodule.c: the Lock and RLock    *)
(* objects, the _ThreadHandle objects and the thread bootstrap.            *)
(*                                                                         *)
(* Atomicity.  A method of the module runs with the interpreter lock (GIL) *)
(* held, so one call is one action, except where the code gives the GIL up *)
(* (Py_BEGIN_ALLOW_THREADS, and the blocking wait inside acquire_timed):   *)
(* there the call is cut in steps, and the thread's place is kept in pc.   *)
(* A step taken with the GIL released (the OS handing the mutex to a       *)
(* waiter) may fall between any two actions of the other threads.          *)
(***************************************************************************)
EXTENDS Integers, Sequences, FiniteSets, TLC

\* ------------------------------------------------------------------ bounds
\* Threads of the process, 1..NThreads; thread 1 is the main thread.
NThreads == 3

Threads == 1..NThreads
MainThread == 1

VARIABLES
    lock_lock,    \* lockobject.lock_lock: TRUE when the OS mutex is held
    locked,       \* lockobject.locked (char, 0 or 1)
    pc,           \* per thread: where it is inside a call that gave the GIL up
    loc,          \* per thread: the locals of that call, <<a, b>>
    ev,           \* the step just taken: thread, operation, outcome, arguments
    acquirer,     \* history: the thread whose Lock.acquire() last returned
                  \* True and has not been released since (0: none)
    handoff,      \* history: <<A, B>> when the last successful release() was
                  \* made by B of a lock acquired by A # B (else <<0, 0>>)
    rlock_lock,   \* rlockobject.rlock_lock: TRUE when the OS mutex is held
    rlock_owner,  \* rlockobject.rlock_owner (0: none)
    rlock_count,  \* rlockobject.rlock_count (unsigned long)
    saved,        \* per thread: the (count, owner) its _release_save() returned
                  \* and it has not passed to _acquire_restore() yet
    depth,        \* history, per thread: acquire()s that returned True minus
                  \* release()s that returned, with a state given up by
                  \* _release_save() counted as 0 and one put back by
                  \* _acquire_restore(count, owner) as count
    snap,         \* history, per thread: <<owner, count, mutex>> as they were
                  \* when its pending _release_save() was called
    between,      \* history, per thread with a pending _release_save(): 1
                  \* once another thread's acquire() returned True after it,
                  \* 2 once that thread has released the lock again
    handback,     \* history: when the step just taken is the return of an
                  \* _acquire_restore(), the value of between for its caller
    rlock_holder, \* history: the thread whose call obtained the RLock's OS
                  \* mutex and holds it since (0: the mutex is free)
    thr,          \* per thread: "unstarted", "running" or "exited"
    ident,        \* ThreadHandleObject.ident of the handle made for thread c
                  \* (0: no handle has been made for c)
    handle,       \* ThreadHandleObject.handle, the native handle (0: none)
    joinable,     \* ThreadHandleObject.joinable (char, 0 or 1)
    os_released,  \* per native handle: how often PyThread_join_thread or
                  \* PyThread_detach_thread has been called on it
    joined,       \* history: the threads whose handle's join() returned None
    outcome,      \* history, per handle: "none", or what became of the first
                  \* join() or detach() that passed the joinable test
                  \* ("joining", "joined", "detached", "failed"), or "forked"
                  \* when fork recovery came first
    registered,   \* _PyRuntime.threads.handles: the handles linked in the list
    freed,        \* the handles that have been destroyed (ThreadHandle_dealloc)
    forks,        \* how often the process followed has been forked
    unlinks,      \* per handle: how often llist_remove was called on its node
    invalidated,  \* history: the handles fork recovery has taken off the list
    counter,      \* the shared counter of the counter scenario
    tmp,          \* per worker: the value it read from the counter
    iter,         \* per worker: the increments it has completed
    wpc,          \* per worker: its place in the worker function
    local_state,  \* per address: "free", or the localobject there is "alive"
                  \* or "clearing" (inside local_dealloc)
    dummies,      \* localobject.dummies: the dummies whose weak reference is
                  \* a key of the dict; dummy d is mapped to local dict d
    tdict,        \* per thread: the thread-state dict, key -> dummy (0: none)
    ldict,        \* per local dict: the value of the attribute (0: not set)
    inits,        \* history, per thread and address: how the last call of
                  \* the type's tp_init for the thread on the localobject
                  \* there ended ("none": no call, "ok", "failed")
    wrote,        \* history, per thread and address: the value the thread
                  \* last set through the localobject there (0: none)
    finalizing,   \* the runtime is finalizing: _PyThreadState_MustExit is
                  \* true for every thread but the main thread
    nthreads,     \* interp->threads.count, what _count() returns
    stage,        \* per thread: where it is in thread_run ("none", "boot",
                  \* "bound", "call", "teardown", "done", "skipped")
    refs,         \* per thread: the references of its bootstate to func,
                  \* args and kwargs ("none", "held", "released", or
                  \* "leaked": the bootstate was freed without Py_DECREF)
    tstate,       \* per thread: its PyThreadState ("none", "new", "bound",
                  \* "cleared": cleared, still in the interpreter's list;
                  \* "deleted")
    unraisable,   \* per thread: the reports made for it through
                  \* PyErr_FormatUnraisable
    incs,         \* history, per thread: how often it incremented nthreads
    decs,         \* history, per thread: how often it decremented nthreads
    on_delete,    \* per thread: tstate->on_delete_data ("none"; "set": a
                  \* weak reference to the sentinel lock, which the Lock of
                  \* the model stands for; "dead": the lock is gone;
                  \* "released": release_sentinel has run and the lock is
                  \* still there)
    head_lock     \* _PyRuntime's HEAD_LOCK mutex: the thread that holds it
                  \* (0: free)

lockVars == <<lock_lock, locked, acquirer, handoff>>
rlockVars ==
    <<rlock_lock, rlock_owner, rlock_count, saved, depth, snap, between, handback,
      rlock_holder>>
threadVars == <<pc, loc, ev>>
handleVars ==
    <<thr, ident, handle, joinable, os_released, joined, outcome, registered,
      freed, forks, unlinks, invalidated>>
counterVars == <<counter, tmp, iter, wpc>>

tlsVars == <<local_state, dummies, tdict, ldict, wrote, inits>>

bootVars ==
    <<finalizing, nthreads, stage, refs, tstate, unraisable, incs, decs, on_delete,
      head_lock>>

vars ==
    <<lockVars, rlockVars, threadVars, handleVars, counterVars, tlsVars, bootVars>>

\* The record of a step: who, which method, how it ended, and two numbers
\* (arguments or returned values) whose meaning depends on the method.
Event(t, op, res, a, b) == [t |-> t, op |-> op, res |-> res, a |-> a, b |-> b]

NoLocals == <<0, 0>>

\* No saved state, no snapshot.
NoState == <<0, 0>>
NoSnap == <<0, 0, FALSE>>

\* The largest unsigned long, scaled down: rlock_count lives in
\* 0 .. ULONG_MAX and the arithmetic on it is modulo ULONG_MAX + 1.
ULONG_MAX == 3

\* ------------------------------------------------------ time and timeouts
\* Timeouts the callers pass, in seconds; acquire(blocking=True, timeout=-1).
TimeoutArgs == {-2, -1, 0, 1, 2}

\* _PyTime_FromSeconds / _PyTime_FromSecondsObject: seconds to nanoseconds.
PyTime_FromSeconds(s) == s * 1000000000

\* _PyTime_AsMicroseconds(t, _PyTime_ROUND_TIMEOUT): nanoseconds to
\* microseconds, rounded away from zero.
PyTime_AsMicroseconds(ns) ==
    IF ns >= 0 THEN (ns + 999) \div 1000 ELSE -(((-ns) + 999) \div 1000)

\* PY_TIMEOUT_MAX, in microseconds.  The platform's value is LLONG_MAX / 1000;
\* it is scaled down to one second here so that a caller of the model can
\* exceed it.
PY_TIMEOUT_MAX == 1000000

unset_timeout == PyTime_FromSeconds(-1)

\* Mutant of lock_acquire_parse_args: a non-blocking call keeps the unset
\* timeout instead of the timeout 0.
lock_acquire_parse_args_keeps_unset(blocking, timeout_obj) ==
    LET timeout == PyTime_FromSeconds(timeout_obj) IN
    IF ~blocking /\ timeout # unset_timeout
    THEN [err |-> "ValueError", timeout |-> timeout]
    ELSE IF timeout < 0 /\ timeout # unset_timeout
    THEN [err |-> "ValueError", timeout |-> timeout]
    ELSE IF timeout # unset_timeout
            /\ PyTime_AsMicroseconds(timeout) > PY_TIMEOUT_MAX
    THEN [err |-> "OverflowError", timeout |-> timeout]
    ELSE [err |-> "ok", timeout |-> timeout]

\* lock_acquire_parse_args: the error it raises ("ok": none) and *timeout.
lock_acquire_parse_args(blocking, timeout_obj) ==
    LET timeout == PyTime_FromSeconds(timeout_obj) IN
    IF ~blocking /\ timeout # unset_timeout
    THEN [err |-> "ValueError", timeout |-> timeout]
    ELSE IF timeout < 0 /\ timeout # unset_timeout
    THEN [err |-> "ValueError", timeout |-> timeout]
    ELSE IF ~blocking
    THEN [err |-> "ok", timeout |-> 0]
    ELSE IF timeout # unset_timeout
            /\ PyTime_AsMicroseconds(timeout) > PY_TIMEOUT_MAX
    THEN [err |-> "OverflowError", timeout |-> timeout]
    ELSE [err |-> "ok", timeout |-> timeout]

\* ------------------------------------------------------------ OS mutex
\* PyThread_acquire_lock_timed(lock, 0, 0): the non-blocking try that
\* acquire_timed makes first, with the GIL held.  "WAIT" stands for the
\* blocking wait that follows a miss when the timeout is not zero.
acquire_timed(mutex, timeout) ==
    IF ~mutex THEN "PY_LOCK_ACQUIRED"
    ELSE IF PyTime_AsMicroseconds(timeout) = 0 THEN "PY_LOCK_FAILURE"
    ELSE "WAIT"

\* PyThread_release_lock: the mutex after the call.
PyThread_release_lock(mutex) == FALSE

\* ---------------------------------------------------------------- Lock
\* Mutant of lock_PyThread_acquire_lock: it returns True without the mutex.
lock_acquire_without_mutex(t, blocking, timeout_obj) ==
    /\ pc[t] = "idle"
    /\ locked' = 1
    /\ ev' = Event(t, "Lock.acquire", "True",
                   IF blocking THEN 1 ELSE 0, timeout_obj)
    /\ UNCHANGED <<lock_lock, pc, loc>>

\* Mutant of lock_acquire_finish: the status of acquire_timed is not looked at.
lock_acquire_finish_unchecked(t, r, blocking, timeout_obj) ==
    /\ locked' = 1
    /\ ev' = Event(t, "Lock.acquire", "True",
                   IF blocking THEN 1 ELSE 0, timeout_obj)

\* lock_PyThread_acquire_lock after acquire_timed returned r.
lock_acquire_finish(t, r, blocking, timeout_obj) ==
    IF r = "PY_LOCK_INTR"
    THEN /\ locked' = locked
         /\ ev' = Event(t, "Lock.acquire", "Interrupted",
                        IF blocking THEN 1 ELSE 0, timeout_obj)
    ELSE /\ locked' = IF r = "PY_LOCK_ACQUIRED" THEN 1 ELSE locked
         /\ ev' = Event(t, "Lock.acquire",
                        IF r = "PY_LOCK_ACQUIRED" THEN "True" ELSE "False",
                        IF blocking THEN 1 ELSE 0, timeout_obj)

\* lock_PyThread_acquire_lock, up to the point where it returns or blocks.
lock_PyThread_acquire_lock(t, blocking, timeout_obj) ==
    /\ pc[t] = "idle"
    /\ LET p == lock_acquire_parse_args(blocking, timeout_obj)
           r == acquire_timed(lock_lock, p.timeout)
       IN
       IF p.err # "ok"
       THEN /\ ev' = Event(t, "Lock.acquire", p.err,
                           IF blocking THEN 1 ELSE 0, timeout_obj)
            /\ UNCHANGED <<lock_lock, locked, pc, loc>>
       ELSE IF r = "WAIT"
       THEN /\ pc' = [pc EXCEPT ![t] = "lock_wait"]
            /\ loc' = [loc EXCEPT ![t] = <<IF blocking THEN 1 ELSE 0, timeout_obj>>]
            /\ ev' = Event(t, "Lock.acquire", "blocked",
                           IF blocking THEN 1 ELSE 0, timeout_obj)
            /\ UNCHANGED <<lock_lock, locked>>
       ELSE /\ lock_lock' = (lock_lock \/ r = "PY_LOCK_ACQUIRED")
            /\ lock_acquire_finish(t, r, blocking, timeout_obj)
            /\ UNCHANGED <<pc, loc>>

\* The blocking wait of acquire_timed, GIL released: the OS gives the mutex
\* to this waiter.
lock_acquire_wake(t) ==
    /\ pc[t] = "lock_wait"
    /\ ~lock_lock
    /\ lock_lock' = TRUE
    /\ pc' = [pc EXCEPT ![t] = "lock_got"]
    /\ ev' = Event(t, "Lock.acquire", "woken", loc[t][1], loc[t][2])
    /\ UNCHANGED <<locked, loc>>

\* The waiter has the mutex and the GIL again: acquire_timed returns
\* PY_LOCK_ACQUIRED.
lock_acquire_resume(t) ==
    /\ pc[t] = "lock_got"
    /\ lock_acquire_finish(t, "PY_LOCK_ACQUIRED", loc[t][1] = 1, loc[t][2])
    /\ pc' = [pc EXCEPT ![t] = "idle"]
    /\ loc' = [loc EXCEPT ![t] = NoLocals]
    /\ UNCHANGED lock_lock

\* Mutant of lock_acquire_timeout: the timeout is noticed only once the
\* mutex is free.
lock_acquire_timeout_when_free(t) ==
    /\ pc[t] = "lock_wait"
    /\ loc[t][2] > 0
    /\ ~lock_lock
    /\ lock_acquire_finish(t, "PY_LOCK_FAILURE", loc[t][1] = 1, loc[t][2])
    /\ pc' = [pc EXCEPT ![t] = "idle"]
    /\ loc' = [loc EXCEPT ![t] = NoLocals]
    /\ UNCHANGED lock_lock

\* The blocking wait ends because the timeout ran out.
lock_acquire_timeout(t) ==
    /\ pc[t] = "lock_wait"
    /\ loc[t][2] > 0
    /\ lock_acquire_finish(t, "PY_LOCK_FAILURE", loc[t][1] = 1, loc[t][2])
    /\ pc' = [pc EXCEPT ![t] = "idle"]
    /\ loc' = [loc EXCEPT ![t] = NoLocals]
    /\ UNCHANGED lock_lock

\* The blocking wait ends because a signal handler raised; signal handlers
\* run in the main thread only.
lock_acquire_interrupt(t) ==
    /\ pc[t] = "lock_wait"
    /\ t = MainThread
    /\ lock_acquire_finish(t, "PY_LOCK_INTR", loc[t][1] = 1, loc[t][2])
    /\ pc' = [pc EXCEPT ![t] = "idle"]
    /\ loc' = [loc EXCEPT ![t] = NoLocals]
    /\ UNCHANGED lock_lock

\* Mutant of lock_PyThread_release_lock: the sanity check is missing.
lock_release_unchecked(t) ==
    /\ pc[t] = "idle"
    /\ lock_lock' = PyThread_release_lock(lock_lock)
    /\ locked' = 0
    /\ ev' = Event(t, "Lock.release", "None", 0, 0)
    /\ UNCHANGED <<pc, loc>>

\* Mutant of lock_PyThread_release_lock: the flag is cleared, the mutex is
\* not released.
lock_release_keeps_mutex(t) ==
    /\ pc[t] = "idle"
    /\ IF locked = 0
       THEN /\ ev' = Event(t, "Lock.release", "RuntimeError", 0, 0)
            /\ UNCHANGED <<lock_lock, locked>>
       ELSE /\ lock_lock' = lock_lock
            /\ locked' = 0
            /\ ev' = Event(t, "Lock.release", "None", 0, 0)
    /\ UNCHANGED <<pc, loc>>

\* lock_PyThread_release_lock
lock_PyThread_release_lock(t) ==
    /\ pc[t] = "idle"
    /\ IF locked = 0
       THEN /\ ev' = Event(t, "Lock.release", "RuntimeError", 0, 0)
            /\ UNCHANGED <<lock_lock, locked>>
       ELSE /\ lock_lock' = PyThread_release_lock(lock_lock)
            /\ locked' = 0
            /\ ev' = Event(t, "Lock.release", "None", 0, 0)
    /\ UNCHANGED <<pc, loc>>

\* Mutant of lock_locked_lock: it tells whether the mutex is held.
lock_locked_reads_mutex(t) ==
    /\ pc[t] = "idle"
    /\ ev' = Event(t, "Lock.locked", IF lock_lock THEN "True" ELSE "False", 0, 0)
    /\ UNCHANGED <<lock_lock, locked, pc, loc>>

\* lock_locked_lock
lock_locked_lock(t) ==
    /\ pc[t] = "idle"
    /\ ev' = Event(t, "Lock.locked", IF locked # 0 THEN "True" ELSE "False", 0, 0)
    /\ UNCHANGED <<lock_lock, locked, pc, loc>>

\* History of the Lock, read off the step just taken.
\* Mutant of lock__at_fork_reinit: the locked flag is not reset.
lock__at_fork_reinit_keeps_locked(t, err) ==
    /\ \A u \in Threads: pc[u] = "idle"
    /\ IF err
       THEN /\ ev' = Event(t, "Lock._at_fork_reinit", "ThreadError", 0, 0)
            /\ UNCHANGED <<lock_lock, locked>>
       ELSE /\ lock_lock' = FALSE
            /\ ev' = Event(t, "Lock._at_fork_reinit", "None", locked, 0)
            /\ UNCHANGED locked
    /\ UNCHANGED <<pc, loc>>

\* lock__at_fork_reinit by thread t; err: _PyThread_at_fork_reinit cannot
\* allocate the new mutex.  The event keeps the locked flag that the call
\* found.  A thread waiting inside acquire() would stay on
\* the mutex that is abandoned, so the call is followed only where no thread
\* is inside a call on the lock, as in the child of a fork.
lock__at_fork_reinit(t, err) ==
    /\ \A u \in Threads: pc[u] = "idle"
    /\ IF err
       THEN /\ ev' = Event(t, "Lock._at_fork_reinit", "ThreadError", 0, 0)
            /\ UNCHANGED <<lock_lock, locked>>
       ELSE /\ lock_lock' = FALSE
            /\ locked' = 0
            /\ ev' = Event(t, "Lock._at_fork_reinit", "None", locked, 0)
    /\ UNCHANGED <<pc, loc>>

LockHistory ==
    /\ acquirer' = IF ev'.op = "Lock.acquire" /\ ev'.res = "True" THEN ev'.t
                   ELSE IF ev'.op = "Lock.release" /\ ev'.res = "None" THEN 0
                   ELSE IF ev'.op = "Lock._at_fork_reinit" /\ ev'.res = "None"
                   THEN 0
                   ELSE acquirer
    /\ handoff' = IF ev'.op = "Lock.release" /\ ev'.res = "None"
                  THEN IF acquirer # 0 /\ acquirer # ev'.t
                       THEN <<acquirer, ev'.t>> ELSE <<0, 0>>
                  ELSE handoff


\* --------------------------------------------------------------- RLock
\* rlock_is_owned_by
rlock_is_owned_by(tid) == rlock_owner = tid /\ rlock_count > 0

\* The value rlock_recursion_count returns to thread tid.
RecursionCount(tid) == IF rlock_owner = tid THEN rlock_count ELSE 0

\* Mutant of rlock_acquire_owned: the overflow of the count is not looked for.
rlock_acquire_owned_wraps(t, blocking, timeout_obj) ==
    /\ rlock_count' = (rlock_count + 1) % (ULONG_MAX + 1)
    /\ ev' = Event(t, "RLock.acquire", "True",
                   IF blocking THEN 1 ELSE 0, timeout_obj)
    /\ UNCHANGED <<rlock_lock, rlock_owner, pc, loc>>

\* Mutant of rlock_acquire_owned: the owner's count is set, not incremented.
rlock_acquire_owned_no_increment(t, blocking, timeout_obj) ==
    /\ rlock_count' = 1
    /\ ev' = Event(t, "RLock.acquire", "True",
                   IF blocking THEN 1 ELSE 0, timeout_obj)
    /\ UNCHANGED <<rlock_lock, rlock_owner, pc, loc>>

\* rlock_acquire when the caller owns the lock already.
rlock_acquire_owned(t, blocking, timeout_obj) ==
    LET count == (rlock_count + 1) % (ULONG_MAX + 1) IN
    /\ IF count <= rlock_count
       THEN /\ ev' = Event(t, "RLock.acquire", "OverflowError",
                           IF blocking THEN 1 ELSE 0, timeout_obj)
            /\ rlock_count' = rlock_count
       ELSE /\ rlock_count' = count
            /\ ev' = Event(t, "RLock.acquire", "True",
                           IF blocking THEN 1 ELSE 0, timeout_obj)
    /\ UNCHANGED <<rlock_lock, rlock_owner, pc, loc>>

\* Mutant of rlock_acquire_finish: only PY_LOCK_FAILURE leaves the lock as it
\* was; an interrupted wait makes the caller the owner.
rlock_acquire_finish_intr_owns(t, r, blocking, timeout_obj) ==
    IF r # "PY_LOCK_FAILURE"
    THEN /\ rlock_owner' = t
         /\ rlock_count' = 1
         /\ ev' = Event(t, "RLock.acquire",
                        IF r = "PY_LOCK_INTR" THEN "Interrupted" ELSE "True",
                        IF blocking THEN 1 ELSE 0, timeout_obj)
    ELSE /\ UNCHANGED <<rlock_owner, rlock_count>>
         /\ ev' = Event(t, "RLock.acquire", "False",
                        IF blocking THEN 1 ELSE 0, timeout_obj)

\* rlock_acquire after acquire_timed returned r.
rlock_acquire_finish(t, r, blocking, timeout_obj) ==
    IF r = "PY_LOCK_ACQUIRED"
    THEN /\ rlock_owner' = t
         /\ rlock_count' = 1
         /\ ev' = Event(t, "RLock.acquire", "True",
                        IF blocking THEN 1 ELSE 0, timeout_obj)
    ELSE /\ UNCHANGED <<rlock_owner, rlock_count>>
         /\ ev' = Event(t, "RLock.acquire",
                        IF r = "PY_LOCK_INTR" THEN "Interrupted" ELSE "False",
                        IF blocking THEN 1 ELSE 0, timeout_obj)

\* Mutant of rlock_acquire: the owner's count is incremented before the
\* arguments are looked at.
rlock_acquire_owner_first(t, blocking, timeout_obj) ==
    /\ pc[t] = "idle"
    /\ LET p == lock_acquire_parse_args(blocking, timeout_obj)
           r == acquire_timed(rlock_lock, p.timeout)
       IN
       IF rlock_is_owned_by(t)
       THEN rlock_acquire_owned(t, blocking, timeout_obj)
       ELSE IF p.err # "ok"
       THEN /\ ev' = Event(t, "RLock.acquire", p.err,
                           IF blocking THEN 1 ELSE 0, timeout_obj)
            /\ UNCHANGED <<rlock_lock, rlock_owner, rlock_count, pc, loc>>
       ELSE IF r = "WAIT"
       THEN /\ pc' = [pc EXCEPT ![t] = "rlock_wait"]
            /\ loc' = [loc EXCEPT ![t] = <<IF blocking THEN 1 ELSE 0, timeout_obj>>]
            /\ ev' = Event(t, "RLock.acquire", "blocked",
                           IF blocking THEN 1 ELSE 0, timeout_obj)
            /\ UNCHANGED <<rlock_lock, rlock_owner, rlock_count>>
       ELSE /\ rlock_lock' = (rlock_lock \/ r = "PY_LOCK_ACQUIRED")
            /\ rlock_acquire_finish(t, r, blocking, timeout_obj)
            /\ UNCHANGED <<pc, loc>>

\* rlock_acquire, up to the point where it returns or blocks.
rlock_acquire(t, blocking, timeout_obj) ==
    /\ pc[t] = "idle"
    /\ LET p == lock_acquire_parse_args(blocking, timeout_obj)
           r == acquire_timed(rlock_lock, p.timeout)
       IN
       IF p.err # "ok"
       THEN /\ ev' = Event(t, "RLock.acquire", p.err,
                           IF blocking THEN 1 ELSE 0, timeout_obj)
            /\ UNCHANGED <<rlock_lock, rlock_owner, rlock_count, pc, loc>>
       ELSE IF rlock_is_owned_by(t)
       THEN rlock_acquire_owned(t, blocking, timeout_obj)
       ELSE IF r = "WAIT"
       THEN /\ pc' = [pc EXCEPT ![t] = "rlock_wait"]
            /\ loc' = [loc EXCEPT ![t] = <<IF blocking THEN 1 ELSE 0, timeout_obj>>]
            /\ ev' = Event(t, "RLock.acquire", "blocked",
                           IF blocking THEN 1 ELSE 0, timeout_obj)
            /\ UNCHANGED <<rlock_lock, rlock_owner, rlock_count>>
       ELSE /\ rlock_lock' = (rlock_lock \/ r = "PY_LOCK_ACQUIRED")
            /\ rlock_acquire_finish(t, r, blocking, timeout_obj)
            /\ UNCHANGED <<pc, loc>>

\* The blocking wait of acquire_timed, GIL released: the OS gives the mutex
\* to this waiter.
rlock_acquire_wake(t) ==
    /\ pc[t] = "rlock_wait"
    /\ ~rlock_lock
    /\ rlock_lock' = TRUE
    /\ pc' = [pc EXCEPT ![t] = "rlock_got"]
    /\ ev' = Event(t, "RLock.acquire", "woken", loc[t][1], loc[t][2])
    /\ UNCHANGED <<rlock_owner, rlock_count, loc>>

\* The waiter has the mutex and the GIL again.
rlock_acquire_resume(t) ==
    /\ pc[t] = "rlock_got"
    /\ rlock_acquire_finish(t, "PY_LOCK_ACQUIRED", loc[t][1] = 1, loc[t][2])
    /\ pc' = [pc EXCEPT ![t] = "idle"]
    /\ loc' = [loc EXCEPT ![t] = NoLocals]
    /\ UNCHANGED rlock_lock

\* The blocking wait ends because the timeout ran out.
rlock_acquire_timeout(t) ==
    /\ pc[t] = "rlock_wait"
    /\ loc[t][2] > 0
    /\ rlock_acquire_finish(t, "PY_LOCK_FAILURE", loc[t][1] = 1, loc[t][2])
    /\ pc' = [pc EXCEPT ![t] = "idle"]
    /\ loc' = [loc EXCEPT ![t] = NoLocals]
    /\ UNCHANGED rlock_lock

\* The blocking wait ends because a signal handler raised (main thread only).
rlock_acquire_interrupt(t) ==
    /\ pc[t] = "rlock_wait"
    /\ t = MainThread
    /\ rlock_acquire_finish(t, "PY_LOCK_INTR", loc[t][1] = 1, loc[t][2])
    /\ pc' = [pc EXCEPT ![t] = "idle"]
    /\ loc' = [loc EXCEPT ![t] = NoLocals]
    /\ UNCHANGED rlock_lock

\* Mutant of rlock_release: the ownership check is missing.
rlock_release_unchecked(t) ==
    /\ pc[t] = "idle"
    /\ rlock_count' = (rlock_count + ULONG_MAX) % (ULONG_MAX + 1)
    /\ IF rlock_count' = 0
       THEN /\ rlock_owner' = 0
            /\ rlock_lock' = PyThread_release_lock(rlock_lock)
       ELSE UNCHANGED <<rlock_owner, rlock_lock>>
    /\ ev' = Event(t, "RLock.release", "None", 0, 0)
    /\ UNCHANGED <<pc, loc>>

\* rlock_release
rlock_release(t) ==
    /\ pc[t] = "idle"
    /\ IF ~rlock_is_owned_by(t)
       THEN /\ ev' = Event(t, "RLock.release", "RuntimeError", 0, 0)
            /\ UNCHANGED <<rlock_lock, rlock_owner, rlock_count>>
       ELSE /\ rlock_count' = rlock_count - 1
            /\ IF rlock_count' = 0
               THEN /\ rlock_owner' = 0
                    /\ rlock_lock' = PyThread_release_lock(rlock_lock)
               ELSE UNCHANGED <<rlock_owner, rlock_lock>>
            /\ ev' = Event(t, "RLock.release", "None", 0, 0)
    /\ UNCHANGED <<pc, loc>>

\* Mutant of rlock_restore_finish: the lock is taken as by a first acquire(),
\* for the calling thread and with count 1.
rlock_restore_finish_as_acquire(t, count, owner) ==
    /\ rlock_owner' = t
    /\ rlock_count' = 1
    /\ ev' = Event(t, "RLock._acquire_restore", "None", count, owner)

\* rlock_acquire_restore once it holds the mutex.
rlock_restore_finish(t, count, owner) ==
    /\ rlock_owner' = owner
    /\ rlock_count' = count
    /\ ev' = Event(t, "RLock._acquire_restore", "None", count, owner)

\* Mutant of rlock_acquire_restore: owner and count are written before the
\* wait for the mutex.
rlock_acquire_restore_sets_first(t, count, owner) ==
    /\ pc[t] = "idle"
    /\ IF ~rlock_lock
       THEN /\ rlock_lock' = TRUE
            /\ rlock_restore_finish(t, count, owner)
            /\ UNCHANGED <<pc, loc>>
       ELSE /\ pc' = [pc EXCEPT ![t] = "restore_wait"]
            /\ loc' = [loc EXCEPT ![t] = <<count, owner>>]
            /\ rlock_owner' = owner
            /\ rlock_count' = count
            /\ ev' = Event(t, "RLock._acquire_restore", "blocked", count, owner)
            /\ UNCHANGED rlock_lock

\* rlock_acquire_restore, up to the point where it returns or blocks.  The
\* wait that follows a miss has no timeout and is not interruptible.
rlock_acquire_restore(t, count, owner) ==
    /\ pc[t] = "idle"
    /\ IF ~rlock_lock
       THEN /\ rlock_lock' = TRUE
            /\ rlock_restore_finish(t, count, owner)
            /\ UNCHANGED <<pc, loc>>
       ELSE /\ pc' = [pc EXCEPT ![t] = "restore_wait"]
            /\ loc' = [loc EXCEPT ![t] = <<count, owner>>]
            /\ ev' = Event(t, "RLock._acquire_restore", "blocked", count, owner)
            /\ UNCHANGED <<rlock_lock, rlock_owner, rlock_count>>

\* PyThread_acquire_lock(lock, 1), GIL released: the OS gives the mutex to
\* this waiter.
rlock_restore_wake(t) ==
    /\ pc[t] = "restore_wait"
    /\ ~rlock_lock
    /\ rlock_lock' = TRUE
    /\ pc' = [pc EXCEPT ![t] = "restore_got"]
    /\ ev' = Event(t, "RLock._acquire_restore", "woken", loc[t][1], loc[t][2])
    /\ UNCHANGED <<rlock_owner, rlock_count, loc>>

\* The waiter has the mutex and the GIL again.
rlock_restore_resume(t) ==
    /\ pc[t] = "restore_got"
    /\ rlock_restore_finish(t, loc[t][1], loc[t][2])
    /\ pc' = [pc EXCEPT ![t] = "idle"]
    /\ loc' = [loc EXCEPT ![t] = NoLocals]
    /\ UNCHANGED rlock_lock

\* Mutant of rlock_release_save: the test of the count is missing.
rlock_release_save_unchecked(t) ==
    /\ pc[t] = "idle"
    /\ rlock_count' = 0
    /\ rlock_owner' = 0
    /\ rlock_lock' = PyThread_release_lock(rlock_lock)
    /\ ev' = Event(t, "RLock._release_save", "tuple", rlock_count, rlock_owner)
    /\ UNCHANGED <<pc, loc>>

\* Mutant of rlock_release_save: owner and count are read after they were
\* zeroed.
rlock_release_save_late_capture(t) ==
    /\ pc[t] = "idle"
    /\ IF rlock_count = 0
       THEN /\ ev' = Event(t, "RLock._release_save", "RuntimeError", 0, 0)
            /\ UNCHANGED <<rlock_lock, rlock_owner, rlock_count>>
       ELSE /\ rlock_count' = 0
            /\ rlock_owner' = 0
            /\ rlock_lock' = PyThread_release_lock(rlock_lock)
            /\ ev' = Event(t, "RLock._release_save", "tuple",
                           rlock_count', rlock_owner')
    /\ UNCHANGED <<pc, loc>>

\* rlock_release_save
rlock_release_save(t) ==
    /\ pc[t] = "idle"
    /\ IF rlock_count = 0
       THEN /\ ev' = Event(t, "RLock._release_save", "RuntimeError", 0, 0)
            /\ UNCHANGED <<rlock_lock, rlock_owner, rlock_count>>
       ELSE /\ rlock_count' = 0
            /\ rlock_owner' = 0
            /\ rlock_lock' = PyThread_release_lock(rlock_lock)
            /\ ev' = Event(t, "RLock._release_save", "tuple",
                           rlock_count, rlock_owner)
    /\ UNCHANGED <<pc, loc>>

\* rlock_recursion_count
rlock_recursion_count(t) ==
    /\ pc[t] = "idle"
    /\ ev' = Event(t, "RLock._recursion_count", "int", RecursionCount(t), 0)
    /\ UNCHANGED <<rlock_lock, rlock_owner, rlock_count, pc, loc>>

\* rlock_is_owned
rlock_is_owned(t) ==
    /\ pc[t] = "idle"
    /\ ev' = Event(t, "RLock._is_owned",
                   IF rlock_is_owned_by(t) THEN "True" ELSE "False", 0, 0)
    /\ UNCHANGED <<rlock_lock, rlock_owner, rlock_count, pc, loc>>

\* rlock__at_fork_reinit by thread t; err: _PyThread_at_fork_reinit cannot
\* allocate the new mutex.  The event keeps the count and the owner that the
\* call found.  A thread waiting inside acquire() would stay on
\* the mutex that is abandoned, so the call is followed only where no thread
\* is inside a call on the lock, as in the child of a fork.
rlock__at_fork_reinit(t, err) ==
    /\ \A u \in Threads: pc[u] = "idle"
    /\ IF err
       THEN /\ ev' = Event(t, "RLock._at_fork_reinit", "ThreadError", 0, 0)
            /\ UNCHANGED <<rlock_lock, rlock_owner, rlock_count>>
       ELSE /\ rlock_lock' = FALSE
            /\ rlock_owner' = 0
            /\ rlock_count' = 0
            /\ ev' = Event(t, "RLock._at_fork_reinit", "None",
                         rlock_count, rlock_owner)
    /\ UNCHANGED <<pc, loc>>

\* Who holds the OS mutex of the RLock, read off the step just taken: the
\* thread of the step in which the mutex goes from free to held.
RLockHolderHistory ==
    rlock_holder' = IF ~rlock_lock /\ rlock_lock' THEN ev'.t
                    ELSE IF ~rlock_lock' THEN 0
                    ELSE rlock_holder

\* The caller's side of _release_save / _acquire_restore (threading.Condition
\* keeps the tuple in a local and passes it back once), and the history of
\* the RLock, read off the step just taken.
RLockHistory ==
    /\ saved' = IF ev'.op = "RLock._release_save" /\ ev'.res = "tuple"
                THEN [saved EXCEPT ![ev'.t] = <<ev'.a, ev'.b>>]
                ELSE IF ev'.op = "RLock._acquire_restore"
                        /\ ev'.res \in {"None", "blocked"}
                THEN [saved EXCEPT ![ev'.t] = NoState]
                ELSE saved
    /\ depth' = IF ev'.op = "RLock.acquire" /\ ev'.res = "True"
                THEN [depth EXCEPT ![ev'.t] = @ + 1]
                ELSE IF ev'.op = "RLock.release" /\ ev'.res = "None"
                THEN [depth EXCEPT ![ev'.t] = @ - 1]
                ELSE IF ev'.op = "RLock._release_save" /\ ev'.res = "tuple"
                THEN [u \in Threads |-> IF u = ev'.b THEN 0 ELSE depth[u]]
                ELSE IF ev'.op = "RLock._acquire_restore" /\ ev'.res = "None"
                THEN [u \in Threads |-> IF u = ev'.b THEN ev'.a ELSE depth[u]]
                ELSE IF ev'.op = "RLock._at_fork_reinit" /\ ev'.res = "None"
                THEN [u \in Threads |-> 0]
                ELSE depth
    /\ RLockHolderHistory
    /\ snap' = IF ev'.op = "RLock._release_save" /\ ev'.res = "tuple"
               THEN [snap EXCEPT ![ev'.t] = <<rlock_owner, rlock_count, rlock_lock>>]
               ELSE IF ev'.op = "RLock._acquire_restore" /\ ev'.res = "None"
               THEN [snap EXCEPT ![ev'.t] = NoSnap]
               ELSE snap
    /\ handback' = IF ev'.op = "RLock._acquire_restore" /\ ev'.res = "None"
                   THEN between[ev'.t] ELSE 0
    /\ between' =
         IF ev'.op = "RLock._release_save" /\ ev'.res = "tuple"
         THEN [between EXCEPT ![ev'.t] = 0]
         ELSE IF ev'.op = "RLock._acquire_restore" /\ ev'.res = "None"
         THEN [between EXCEPT ![ev'.t] = 0]
         ELSE IF ev'.op = "RLock.acquire" /\ ev'.res = "True"
         THEN [u \in Threads |->
                 IF u # ev'.t /\ snap[u] # NoSnap /\ between[u] = 0
                 THEN 1 ELSE between[u]]
         ELSE IF ev'.op = "RLock.release" /\ ev'.res = "None" /\ ~rlock_lock'
         THEN [u \in Threads |->
                 IF u # ev'.t /\ snap[u] # NoSnap /\ between[u] = 1
                 THEN 2 ELSE between[u]]
         ELSE between

\* ------------------------------------------------- thread-local objects
\* The addresses a localobject can be allocated at; the key of the object at
\* address a ("thread.local.%p") is a.
Locals == {1, 2}

\* The values threads store in the attribute.
Values == {1, 2}

\* Addresses of dummies; dummy d and the local dict made with it share d.
DummyIds == 1..(NThreads * Cardinality(Locals))

\* An empty thread-state dict.
NoDict == [a \in Locals |-> 0]

\* The dummies and local dicts that exist: a dummy is kept by a thread-state
\* dict, a local dict by the dummies dict of its localobject.
LiveIds ==
    {d \in DummyIds: \/ \E t \in Threads, a \in Locals: tdict[t][a] = d
                     \/ \E a \in Locals: d \in dummies[a]}

\* tp_alloc / PyDict_New: the new dummy and local dict that thread t makes
\* for the object at a, named after t and a.  The name is free whenever
\* _local_create_dummy runs: the last dummy of that name was the one under
\* the key in t's dict, and its local dict went with it or with the object.
NewId(t, a) == (t - 1) * Cardinality(Locals) + a

\* Mutant of LdictOf: every thread is given the dict of the main thread.
LdictOf_of_main_thread(t, a) ==
    IF tdict[MainThread][a] # 0 THEN tdict[MainThread][a] ELSE NewId(t, a)

\* _ldict: the local dict it returns for thread t and the object at a.
LdictOf(t, a) == IF tdict[t][a] # 0 THEN tdict[t][a] ELSE NewId(t, a)

\* _ldict, with _local_create_dummy when the thread-state dict has no dummy
\* under the key: the dummies dict and the thread-state dicts afterwards.
ldict_create(t, a) ==
    IF tdict[t][a] # 0
    THEN /\ dummies' = dummies
         /\ tdict' = tdict
    ELSE /\ dummies' = [dummies EXCEPT ![a] = @ \cup {NewId(t, a)}]
         /\ tdict' = [tdict EXCEPT ![t][a] = NewId(t, a)]

\* The borrowed reference dummy->localdict points to a dict that is gone.
Dangling(t, a) == tdict[t][a] # 0 /\ tdict[t][a] \notin dummies[a]

\* local_new by thread t, at address a; args: arguments were passed.
local_new(t, a, args) ==
    /\ pc[t] = "idle"
    /\ local_state[a] = "free"
    /\ IF args
       THEN /\ ev' = Event(t, "local.new", "TypeError", a, 0)
            /\ UNCHANGED <<local_state, dummies, tdict, ldict>>
       ELSE /\ local_state' = [local_state EXCEPT ![a] = "alive"]
            /\ dummies' = [dummies EXCEPT ![a] = {NewId(t, a)}]
            /\ tdict' = [tdict EXCEPT ![t][a] = NewId(t, a)]
            /\ ldict' = [ldict EXCEPT ![NewId(t, a)] = 0]
            /\ ev' = Event(t, "local.new", "None", a, 0)
    /\ UNCHANGED <<pc, loc>>

\* local_setattro by thread t on the object at a.
local_setattro(t, a, v) ==
    /\ pc[t] = "idle"
    /\ local_state[a] = "alive"
    /\ ldict_create(t, a)
    /\ ldict' = [ldict EXCEPT ![LdictOf(t, a)] = v]
    /\ ev' = Event(t, "local.set",
                   IF Dangling(t, a) THEN "dangling" ELSE "None", a, v)
    /\ UNCHANGED <<local_state, pc, loc>>

\* local_getattro by thread t on the object at a; a read through a dangling
\* reference yields anything.
local_getattro(t, a) ==
    /\ pc[t] = "idle"
    /\ local_state[a] = "alive"
    /\ ldict_create(t, a)
    /\ ldict' = IF tdict[t][a] # 0 THEN ldict
                ELSE [ldict EXCEPT ![NewId(t, a)] = 0]
    /\ \E u \in Values \cup {0}:
          /\ IF Dangling(t, a) THEN TRUE
             ELSE u = IF tdict[t][a] # 0 THEN ldict[LdictOf(t, a)] ELSE 0
          /\ ev' = Event(t, "local.get",
                         IF Dangling(t, a) THEN "dangling"
                         ELSE IF u = 0 THEN "AttributeError" ELSE "value",
                         a, u)
    /\ UNCHANGED <<local_state, pc, loc>>

\* local_new of a type that has a tp_init of its own, by thread t at address
\* a, with the call of tp_init that the type's call makes on the new object
\* in the same thread; fail: tp_init raises, and the object is dropped.
local_new_tp_init(t, a, fail) ==
    /\ pc[t] = "idle"
    /\ local_state[a] = "free"
    /\ IF fail
       THEN /\ ev' = Event(t, "local.new", "error", a, 1)
            /\ UNCHANGED <<local_state, dummies, tdict, ldict>>
       ELSE /\ local_state' = [local_state EXCEPT ![a] = "alive"]
            /\ dummies' = [dummies EXCEPT ![a] = {NewId(t, a)}]
            /\ tdict' = [tdict EXCEPT ![t][a] = NewId(t, a)]
            /\ ldict' = [ldict EXCEPT ![NewId(t, a)] = 0]
            /\ ev' = Event(t, "local.new", "None", a, 1)
    /\ UNCHANGED <<pc, loc>>

\* Mutant of ldict_tp_init: the dummy stays when tp_init has failed.
ldict_tp_init_keeps_dummy(t, a, fail) ==
    /\ pc[t] = "idle"
    /\ local_state[a] = "alive"
    /\ IF tdict[t][a] # 0
       THEN /\ ev' = Event(t, "local.access", "None", a, 0)
            /\ UNCHANGED <<dummies, tdict, ldict>>
       ELSE /\ ldict_create(t, a)
            /\ ldict' = [ldict EXCEPT ![NewId(t, a)] = 0]
            /\ ev' = Event(t, "local.init", IF fail THEN "failed" ELSE "ok", a,
                           IF inits[t][a] = "failed" THEN 1 ELSE 0)
    /\ UNCHANGED <<local_state, pc, loc>>

\* _ldict for an object whose type has a tp_init of its own, called by thread
\* t for an access to the object at a.  With a dummy under the key nothing is
\* called; without, the dummy is made and tp_init called, and when tp_init
\* fails (fail) the key is deleted again, so that the dummy goes, and by its
\* weak reference's callback the entry of the dummies dict.  The event of a
\* call of tp_init tells whether the last call for the thread had failed.
ldict_tp_init(t, a, fail) ==
    /\ pc[t] = "idle"
    /\ local_state[a] = "alive"
    /\ IF tdict[t][a] # 0
       THEN /\ ev' = Event(t, "local.access", "None", a, 0)
            /\ UNCHANGED <<dummies, tdict, ldict>>
       ELSE IF fail
       THEN /\ ev' = Event(t, "local.init", "failed", a,
                           IF inits[t][a] = "failed" THEN 1 ELSE 0)
            /\ UNCHANGED <<dummies, tdict, ldict>>
       ELSE /\ ldict_create(t, a)
            /\ ldict' = [ldict EXCEPT ![NewId(t, a)] = 0]
            /\ ev' = Event(t, "local.init", "ok", a,
                           IF inits[t][a] = "failed" THEN 1 ELSE 0)
    /\ UNCHANGED <<local_state, pc, loc>>

\* local_dealloc, first part: the weak references to the object are cleared
\* and local_clear drops args, kw, the dummies dict (with it the local dicts)
\* and the callback.  Destructors of the values stored may run here, so
\* other threads may run before the walk.
local_clear_begin(t, a) ==
    /\ pc[t] = "idle"
    /\ local_state[a] = "alive"
    /\ local_state' = [local_state EXCEPT ![a] = "clearing"]
    /\ dummies' = [dummies EXCEPT ![a] = {}]
    /\ ldict' = [d \in DummyIds |-> IF d \in dummies[a] THEN 0 ELSE ldict[d]]
    /\ pc' = [pc EXCEPT ![t] = "local_clear"]
    /\ loc' = [loc EXCEPT ![t] = <<a, 0>>]
    /\ ev' = Event(t, "local.dealloc", "clearing", a, 0)
    /\ UNCHANGED tdict

\* Mutant of local_clear_walk: only the current thread's dict is cleaned.
local_clear_walk_current_only(t) ==
    /\ pc[t] = "local_clear"
    /\ tdict' = [tdict EXCEPT ![t][loc[t][1]] = 0]
    /\ local_state' = [local_state EXCEPT ![loc[t][1]] = "free"]
    /\ pc' = [pc EXCEPT ![t] = "idle"]
    /\ loc' = [loc EXCEPT ![t] = NoLocals]
    /\ ev' = Event(t, "local.dealloc", "None", loc[t][1],
                   Cardinality({u \in Threads: tdict[u][loc[t][1]] # 0}))
    /\ UNCHANGED <<dummies, ldict>>

\* Mutant of local_clear_walk: the thread-state dicts are emptied.
local_clear_walk_all_keys(t) ==
    /\ pc[t] = "local_clear"
    /\ tdict' = [u \in Threads |-> NoDict]
    /\ local_state' = [local_state EXCEPT ![loc[t][1]] = "free"]
    /\ pc' = [pc EXCEPT ![t] = "idle"]
    /\ loc' = [loc EXCEPT ![t] = NoLocals]
    /\ ev' = Event(t, "local.dealloc", "None", loc[t][1],
                   Cardinality({u \in Threads: tdict[u][loc[t][1]] # 0}))
    /\ UNCHANGED <<dummies, ldict>>

\* local_dealloc, second part: local_clear pops the key from the dict of
\* every thread state of the interpreter, and the object is freed.  The
\* event tells how many thread-state dicts held the key.
local_clear_walk(t) ==
    /\ pc[t] = "local_clear"
    /\ tdict' = [u \in Threads |-> [tdict[u] EXCEPT ![loc[t][1]] = 0]]
    /\ local_state' = [local_state EXCEPT ![loc[t][1]] = "free"]
    /\ pc' = [pc EXCEPT ![t] = "idle"]
    /\ loc' = [loc EXCEPT ![t] = NoLocals]
    /\ ev' = Event(t, "local.dealloc", "None", loc[t][1],
                   Cardinality({u \in Threads: tdict[u][loc[t][1]] # 0}))
    /\ UNCHANGED <<dummies, ldict>>

\* Mutant of localdummy_destroyed: the entry stays.
localdummy_destroyed_keeps_entry(a, d) == dummies[a]

\* _localdummy_destroyed, the callback of the weak reference to dummy d made
\* by the object at a: the dummies dict of that object afterwards.
localdummy_destroyed(a, d) ==
    IF local_state[a] = "alive" THEN dummies[a] \ {d} ELSE dummies[a]

\* PyThreadState_Clear for thread c: its dict goes, with it its dummies, and
\* the callback of each runs.
tstate_clear(c) ==
    /\ tdict' = [tdict EXCEPT ![c] = NoDict]
    /\ dummies' = [a \in Locals |->
                     IF tdict[c][a] # 0 THEN localdummy_destroyed(a, tdict[c][a])
                     ELSE dummies[a]]
    /\ ldict' = [d \in DummyIds |->
                   IF \E a \in Locals: d \in dummies[a] /\ d \notin dummies'[a]
                   THEN 0 ELSE ldict[d]]
    /\ UNCHANGED local_state

\* History of the thread-local objects, read off the step just taken.
TLSHistory ==
    /\ wrote' = IF ev'.op = "local.set"
             THEN [wrote EXCEPT ![ev'.t][ev'.a] = ev'.b]
             ELSE IF ev'.op \in {"local.new", "local.dealloc"}
             THEN [u \in Threads |-> [wrote[u] EXCEPT ![ev'.a] = 0]]
             ELSE IF ev'.op = "thread_run"
             THEN [wrote EXCEPT ![ev'.t] = NoDict]
             ELSE wrote
    /\ inits' = IF ev'.op = "local.init"
                THEN [inits EXCEPT ![ev'.t][ev'.a] = ev'.res]
                ELSE IF ev'.op \in {"local.new", "local.dealloc"}
                THEN [u \in Threads |->
                        [inits[u] EXCEPT ![ev'.a] =
                            IF u = ev'.t /\ ev'.op = "local.new" /\ ev'.b = 1
                               /\ ev'.res = "None"
                            THEN "ok" ELSE "none"]]
                ELSE IF ev'.op = "thread_run"
                THEN [inits EXCEPT ![ev'.t] = [a \in Locals |-> "none"]]
                ELSE inits

\* -------------------------------------------------------- ThreadHandle
\* The results of PyThread_join_thread and PyThread_detach_thread: 0, or an
\* error of the OS.
OSResults == {0, 1}

\* Mutant of ThreadHandle_join: joinable is not cleared before the wait.
ThreadHandle_join_keeps_flag(t, c) ==
    /\ pc[t] = "idle"
    /\ IF joinable[c] = 0
       THEN /\ ev' = Event(t, "ThreadHandle.join", "ValueError", c, 0)
            /\ UNCHANGED <<joinable, os_released, pc, loc>>
       ELSE IF ident[c] = t
       THEN /\ ev' = Event(t, "ThreadHandle.join", "ThreadError", c, 0)
            /\ UNCHANGED <<joinable, os_released, pc, loc>>
       ELSE /\ joinable' = joinable
            /\ os_released' = [os_released EXCEPT ![handle[c]] = @ + 1]
            /\ pc' = [pc EXCEPT ![t] = "join_wait"]
            /\ loc' = [loc EXCEPT ![t] = <<c, 0>>]
            /\ ev' = Event(t, "ThreadHandle.join", "blocked", c, 0)
    /\ UNCHANGED <<ident, handle, thr, registered, freed, forks, unlinks>>

\* Mutant of ThreadHandle_join: the test for the current thread is missing.
ThreadHandle_join_no_self_check(t, c) ==
    /\ pc[t] = "idle"
    /\ IF joinable[c] = 0
       THEN /\ ev' = Event(t, "ThreadHandle.join", "ValueError", c, 0)
            /\ UNCHANGED <<joinable, os_released, pc, loc>>
       ELSE /\ joinable' = [joinable EXCEPT ![c] = 0]
            /\ os_released' = [os_released EXCEPT ![handle[c]] = @ + 1]
            /\ pc' = [pc EXCEPT ![t] = "join_wait"]
            /\ loc' = [loc EXCEPT ![t] = <<c, 0>>]
            /\ ev' = Event(t, "ThreadHandle.join", "blocked", c, 0)
    /\ UNCHANGED <<ident, handle, thr, registered, freed, forks, unlinks>>

\* ThreadHandle_join on the handle of thread c, up to the call of
\* PyThread_join_thread with the GIL released.
ThreadHandle_join(t, c) ==
    /\ pc[t] = "idle"
    /\ IF joinable[c] = 0
       THEN /\ ev' = Event(t, "ThreadHandle.join", "ValueError", c, 0)
            /\ UNCHANGED <<joinable, os_released, pc, loc>>
       ELSE IF ident[c] = t
       THEN /\ ev' = Event(t, "ThreadHandle.join", "ThreadError", c, 0)
            /\ UNCHANGED <<joinable, os_released, pc, loc>>
       ELSE /\ joinable' = [joinable EXCEPT ![c] = 0]
            /\ os_released' = [os_released EXCEPT ![handle[c]] = @ + 1]
            /\ pc' = [pc EXCEPT ![t] = "join_wait"]
            /\ loc' = [loc EXCEPT ![t] = <<c, 0>>]
            /\ ev' = Event(t, "ThreadHandle.join", "blocked", c, 0)
    /\ UNCHANGED <<ident, handle, thr, registered, freed, forks, unlinks>>

\* PyThread_join_thread returns ret (0 only once the thread has exited) and
\* ThreadHandle_join goes on with the GIL.
ThreadHandle_join_return(t, ret) ==
    /\ pc[t] = "join_wait"
    /\ ret = 0 => thr[handle[loc[t][1]]] = "exited"
    /\ ev' = Event(t, "ThreadHandle.join",
                   IF ret # 0 THEN "ThreadError" ELSE "None", loc[t][1], 0)
    /\ pc' = [pc EXCEPT ![t] = "idle"]
    /\ loc' = [loc EXCEPT ![t] = NoLocals]
    /\ UNCHANGED <<ident, handle, joinable, os_released, thr, registered, freed, forks, unlinks>>

\* Mutant of ThreadHandle_detach: joinable is cleared only when
\* PyThread_detach_thread succeeded.
ThreadHandle_detach_clears_late(t, c, ret) ==
    /\ pc[t] = "idle"
    /\ IF joinable[c] = 0
       THEN /\ ev' = Event(t, "ThreadHandle.detach", "ValueError", c, 0)
            /\ UNCHANGED <<joinable, os_released>>
       ELSE /\ joinable' = [joinable EXCEPT ![c] = IF ret # 0 THEN 1 ELSE 0]
            /\ os_released' = [os_released EXCEPT ![handle[c]] = @ + 1]
            /\ ev' = Event(t, "ThreadHandle.detach",
                           IF ret # 0 THEN "ThreadError" ELSE "None", c, 0)
    /\ UNCHANGED <<ident, handle, thr, pc, loc, registered, freed, forks, unlinks>>

\* ThreadHandle_detach on the handle of thread c; ret is what
\* PyThread_detach_thread returns.
ThreadHandle_detach(t, c, ret) ==
    /\ pc[t] = "idle"
    /\ IF joinable[c] = 0
       THEN /\ ev' = Event(t, "ThreadHandle.detach", "ValueError", c, 0)
            /\ UNCHANGED <<joinable, os_released>>
       ELSE /\ joinable' = [joinable EXCEPT ![c] = 0]
            /\ os_released' = [os_released EXCEPT ![handle[c]] = @ + 1]
            /\ ev' = Event(t, "ThreadHandle.detach",
                           IF ret # 0 THEN "ThreadError" ELSE "None", c, 0)
    /\ UNCHANGED <<ident, handle, thr, pc, loc, registered, freed, forks, unlinks>>

\* thread_PyThread_start_joinable_thread by thread t; the OS makes thread c,
\* or do_start_new_thread fails (err) and the new handle is dropped.
thread_PyThread_start_joinable_thread(t, c, err) ==
    /\ pc[t] = "idle"
    /\ thr[c] = "unstarted"
    /\ IF err
       THEN /\ ev' = Event(t, "start_joinable_thread", "ThreadError", c, 0)
            /\ UNCHANGED <<ident, handle, joinable, thr, registered>>
       ELSE /\ ident' = [ident EXCEPT ![c] = c]
            /\ handle' = [handle EXCEPT ![c] = c]
            /\ joinable' = [joinable EXCEPT ![c] = 1]
            /\ thr' = [thr EXCEPT ![c] = "running"]
            /\ registered' = registered \cup {c}
            /\ ev' = Event(t, "start_joinable_thread", "handle", c, 0)
    /\ UNCHANGED <<os_released, pc, loc, freed, forks, unlinks>>

\* thread_PyThread_start_new_thread by thread t; the OS makes thread c, which
\* has no handle, or do_start_new_thread fails (err).
thread_PyThread_start_new_thread(t, c, err) ==
    /\ pc[t] = "idle"
    /\ thr[c] = "unstarted"
    /\ IF err
       THEN /\ ev' = Event(t, "start_new_thread", "ThreadError", c, 0)
            /\ thr' = thr
       ELSE /\ thr' = [thr EXCEPT ![c] = "running"]
            /\ ev' = Event(t, "start_new_thread", "ident", c, 0)
    /\ UNCHANGED <<ident, handle, joinable, os_released, pc, loc, registered,
                    freed, forks, unlinks>>

\* thread_run comes to its end: the function of thread c has returned.  The
\* event tells how many dummies the thread's dict held.
thread_run(c) ==
    /\ pc[c] = "idle"
    /\ thr[c] = "running"
    /\ thr' = [thr EXCEPT ![c] = "exited"]
    /\ tstate_clear(c)
    /\ ev' = Event(c, "thread_run", "exit",
                   Cardinality({a \in Locals: tdict[c][a] # 0}), 0)
    /\ UNCHANGED <<ident, handle, joinable, os_released, pc, loc, registered, freed, forks, unlinks>>

\* ------------------------------------------------ bootstrap trampoline
\* How the call of the thread's function can end: it returns, it raises
\* SystemExit, or it raises something else.
Outcomes == {"return", "SystemExit", "error"}

\* thread_bootstate_free: what becomes of the references of the bootstate.
thread_bootstate_free(decref) == IF decref = 1 THEN "released" ELSE "leaked"

\* How do_start_new_thread can end: the OS thread runs; the start is refused
\* before anything is built (no thread support, or the interpreter is
\* finalizing); or the OS cannot make the thread.
StartResults == {"ok", "refused", "os_error"}

\* do_start_new_thread for thread c, ending as r.  It makes a new thread
\* state, registered with the interpreter, and a bootstate with new
\* references to func, args and kwargs; when the OS cannot make the thread
\* it clears the thread state, which stays registered, and frees the
\* bootstate with its references.
do_start_new_thread(c, r) ==
    /\ IF r = "ok"
       THEN /\ stage' = [stage EXCEPT ![c] = "boot"]
            /\ refs' = [refs EXCEPT ![c] = "held"]
            /\ tstate' = [tstate EXCEPT ![c] = "new"]
       ELSE IF r = "os_error"
       THEN /\ refs' = [refs EXCEPT ![c] = thread_bootstate_free(1)]
            /\ tstate' = [tstate EXCEPT ![c] = "cleared"]
            /\ UNCHANGED stage
       ELSE UNCHANGED <<stage, refs, tstate>>
    /\ UNCHANGED <<finalizing, nthreads, unraisable>>

\* Mutant of thread_run_enter: the thread state is bound before the test of
\* _PyThreadState_MustExit.
thread_run_enter_binds_first(c) ==
    /\ thr[c] = "running"
    /\ stage[c] = "boot"
    /\ tstate' = [tstate EXCEPT ![c] = "bound"]
    /\ IF finalizing
       THEN /\ refs' = [refs EXCEPT ![c] = thread_bootstate_free(0)]
            /\ stage' = [stage EXCEPT ![c] = "skipped"]
            /\ thr' = [thr EXCEPT ![c] = "exited"]
            /\ ev' = Event(c, "thread_run.enter", "must_exit", 0, 0)
       ELSE /\ stage' = [stage EXCEPT ![c] = "bound"]
            /\ ev' = Event(c, "thread_run.enter", "bound", 0, 0)
            /\ UNCHANGED <<refs, thr>>
    /\ UNCHANGED <<finalizing, nthreads, unraisable>>
    /\ UNCHANGED <<ident, handle, joinable, os_released, pc, loc, registered,
                    freed, forks, unlinks>>
    /\ UNCHANGED <<local_state, dummies, tdict, ldict>>

\* thread_run, from its start to _PyThreadState_Bind: the new OS thread c
\* either finds that it must exit, frees its bootstate and returns, or binds
\* its thread state.
thread_run_enter(c) ==
    /\ thr[c] = "running"
    /\ stage[c] = "boot"
    /\ IF finalizing
       THEN /\ refs' = [refs EXCEPT ![c] = thread_bootstate_free(0)]
            /\ stage' = [stage EXCEPT ![c] = "skipped"]
            /\ thr' = [thr EXCEPT ![c] = "exited"]
            /\ ev' = Event(c, "thread_run.enter", "must_exit", 0, 0)
            /\ UNCHANGED tstate
       ELSE /\ tstate' = [tstate EXCEPT ![c] = "bound"]
            /\ stage' = [stage EXCEPT ![c] = "bound"]
            /\ ev' = Event(c, "thread_run.enter", "bound", 0, 0)
            /\ UNCHANGED <<refs, thr>>
    /\ UNCHANGED <<finalizing, nthreads, unraisable>>
    /\ UNCHANGED <<ident, handle, joinable, os_released, pc, loc, registered,
                    freed, forks, unlinks>>
    /\ UNCHANGED <<local_state, dummies, tdict, ldict>>

\* thread_run, PyEval_AcquireThread and the increment: thread c has the GIL,
\* which no thread but the main thread is given once the runtime finalizes,
\* counts itself and calls its function.
thread_run_call(c) ==
    /\ thr[c] = "running"
    /\ stage[c] = "bound"
    /\ ~finalizing
    /\ nthreads' = nthreads + 1
    /\ stage' = [stage EXCEPT ![c] = "call"]
    /\ ev' = Event(c, "thread_run.call", "None", 0, 0)
    /\ UNCHANGED <<finalizing, refs, tstate, unraisable>>
    /\ UNCHANGED <<thr, ident, handle, joinable, os_released, pc, loc, registered,
                    freed, forks, unlinks>>
    /\ UNCHANGED <<local_state, dummies, tdict, ldict>>

\* Mutant of thread_run_result: SystemExit is reported like any other error.
thread_run_result_reports_exit(c, exc) ==
    /\ thr[c] = "running"
    /\ stage[c] = "call"
    /\ pc[c] = "idle"
    /\ ~finalizing
    /\ unraisable' = [unraisable EXCEPT ![c] = IF exc # "return" THEN @ + 1 ELSE @]
    /\ refs' = [refs EXCEPT ![c] = thread_bootstate_free(1)]
    /\ nthreads' = nthreads - 1
    /\ stage' = [stage EXCEPT ![c] = "teardown"]
    /\ ev' = Event(c, "thread_run.result", exc, 0, 0)
    /\ UNCHANGED <<finalizing, tstate>>
    /\ UNCHANGED <<thr, ident, handle, joinable, os_released, pc, loc, registered,
                    freed, forks, unlinks>>
    /\ UNCHANGED <<local_state, dummies, tdict, ldict>>

\* Mutant of thread_run_result: a function that raised leaves the counter
\* as it is.
thread_run_result_error_keeps_count(c, exc) ==
    /\ thr[c] = "running"
    /\ stage[c] = "call"
    /\ pc[c] = "idle"
    /\ ~finalizing
    /\ unraisable' = [unraisable EXCEPT ![c] = IF exc = "error" THEN @ + 1 ELSE @]
    /\ refs' = [refs EXCEPT ![c] = thread_bootstate_free(1)]
    /\ nthreads' = IF exc = "return" THEN nthreads - 1 ELSE nthreads
    /\ stage' = [stage EXCEPT ![c] = "teardown"]
    /\ ev' = Event(c, "thread_run.result", exc, 0, 0)
    /\ UNCHANGED <<finalizing, tstate>>
    /\ UNCHANGED <<thr, ident, handle, joinable, os_released, pc, loc, registered,
                    freed, forks, unlinks>>
    /\ UNCHANGED <<local_state, dummies, tdict, ldict>>

\* thread_run, from the return of PyObject_Call to the decrement: the call
\* of the function of thread c ended as exc.
thread_run_result(c, exc) ==
    /\ thr[c] = "running"
    /\ stage[c] = "call"
    /\ pc[c] = "idle"
    /\ ~finalizing
    /\ unraisable' = [unraisable EXCEPT ![c] = IF exc = "error" THEN @ + 1 ELSE @]
    /\ refs' = [refs EXCEPT ![c] = thread_bootstate_free(1)]
    /\ nthreads' = nthreads - 1
    /\ stage' = [stage EXCEPT ![c] = "teardown"]
    /\ ev' = Event(c, "thread_run.result", exc, 0, 0)
    /\ UNCHANGED <<finalizing, tstate>>
    /\ UNCHANGED <<thr, ident, handle, joinable, os_released, pc, loc, registered,
                    freed, forks, unlinks>>
    /\ UNCHANGED <<local_state, dummies, tdict, ldict>>

\* Mutant of thread_run_exit: the thread state is cleared but not deleted.
thread_run_exit_keeps_tstate(c) ==
    /\ stage[c] = "teardown"
    /\ ~finalizing
    /\ thread_run(c)
    /\ stage' = [stage EXCEPT ![c] = "done"]
    /\ UNCHANGED <<finalizing, nthreads, refs, unraisable, tstate>>

\* thread_run, PyThreadState_Clear and _PyThreadState_DeleteCurrent, after
\* which the OS thread returns from thread_run.
thread_run_exit(c) ==
    /\ stage[c] = "teardown"
    /\ ~finalizing
    /\ thread_run(c)
    /\ tstate' = [tstate EXCEPT ![c] = "deleted"]
    /\ stage' = [stage EXCEPT ![c] = "done"]
    /\ UNCHANGED <<finalizing, nthreads, refs, unraisable>>

\* The runtime starts to finalize, in the main thread.
runtime_finalize ==
    /\ pc[MainThread] = "idle"
    /\ ~finalizing
    /\ finalizing' = TRUE
    /\ ev' = Event(MainThread, "Py_Finalize", "None", 0, 0)
    /\ UNCHANGED <<nthreads, stage, refs, tstate, unraisable>>
    /\ UNCHANGED <<thr, ident, handle, joinable, os_released, pc, loc, registered,
                    freed, forks, unlinks>>
    /\ UNCHANGED <<local_state, dummies, tdict, ldict>>

\* thread__count by thread t.
thread__count(t) ==
    /\ pc[t] = "idle"
    /\ ev' = Event(t, "_count", "value", nthreads, 0)
    /\ UNCHANGED <<finalizing, nthreads, stage, refs, tstate, unraisable>>
    /\ UNCHANGED <<thr, ident, handle, joinable, os_released, pc, loc, registered,
                    freed, forks, unlinks>>
    /\ UNCHANGED <<local_state, dummies, tdict, ldict>>

\* thread__set_sentinel by thread t: a sentinel it had set is forgotten, and
\* a new lock, unlocked, is made and tied to the thread state by a weak
\* reference.  The Lock of the model is the sentinel of one thread at a time.
thread__set_sentinel(t) ==
    /\ \A u \in Threads: pc[u] = "idle"
    /\ \A u \in Threads \ {t}: on_delete[u] \notin {"set", "released"}
    /\ on_delete' = [on_delete EXCEPT ![t] = "set"]
    /\ lock_lock' = FALSE
    /\ locked' = 0
    /\ ev' = Event(t, "_set_sentinel", "lock", 0, 0)
    /\ UNCHANGED <<pc, loc>>

\* lock_dealloc of the sentinel of thread c, whose last reference thread t
\* drops: the weak reference in the thread state of c is cleared, and the
\* mutex is released if the lock was locked, and freed.
lock_dealloc(t, c) ==
    /\ \A u \in Threads: pc[u] = "idle"
    /\ on_delete[c] \in {"set", "released"}
    /\ on_delete' = [on_delete EXCEPT ![c] = IF @ = "set" THEN "dead" ELSE "none"]
    /\ lock_lock' = IF locked = 1 THEN PyThread_release_lock(lock_lock) ELSE lock_lock
    /\ locked' = locked
    /\ ev' = Event(t, "Lock.dealloc", "None", c, locked)
    /\ UNCHANGED <<pc, loc>>

\* Mutant of release_sentinel: the flag is cleared, the mutex is not released.
release_sentinel_keeps_mutex(c) ==
    /\ IF on_delete[c] = "set" /\ locked = 1
       THEN /\ lock_lock' = lock_lock
            /\ locked' = 0
       ELSE UNCHANGED <<lock_lock, locked>>
    /\ on_delete' = [on_delete EXCEPT ![c] = IF @ = "set" THEN "released" ELSE "none"]

\* release_sentinel, called with tstate->on_delete_data when the thread
\* state of c is torn down, and always when c has none ("none": no call).
release_sentinel(c) ==
    /\ IF on_delete[c] = "set" /\ locked = 1
       THEN /\ lock_lock' = PyThread_release_lock(lock_lock)
            /\ locked' = 0
       ELSE UNCHANGED <<lock_lock, locked>>
    /\ on_delete' = [on_delete EXCEPT ![c] = IF @ = "set" THEN "released" ELSE "none"]

\* History of the live-thread counter, read off the step just taken.
BootHistory ==
    /\ incs' = IF nthreads' > nthreads
               THEN [incs EXCEPT ![ev'.t] = @ + (nthreads' - nthreads)] ELSE incs
    /\ decs' = IF nthreads' < nthreads
               THEN [decs EXCEPT ![ev'.t] = @ + (nthreads - nthreads')] ELSE decs

\* llist_remove: the list without the node (the node's links are set to NULL,
\* which is what node.next != NULL tests afterwards).
llist_remove(list, c) == list \ {c}

\* Mutant of ThreadHandle_dealloc: a handle still joinable is not detached.
ThreadHandle_dealloc_no_detach(t, c, ret) ==
    /\ pc[t] = "idle"
    /\ registered' = IF c \in registered THEN llist_remove(registered, c)
                     ELSE registered
    /\ unlinks' = IF c \in registered THEN [unlinks EXCEPT ![c] = @ + 1]
                  ELSE unlinks
    /\ ev' = Event(t, "ThreadHandle.dealloc", "None", c, 0)
    /\ freed' = freed \cup {c}
    /\ UNCHANGED <<ident, handle, joinable, os_released, thr, pc, loc, forks>>

\* ThreadHandle_dealloc of the handle of thread c, run by the thread t that
\* drops the last reference; ret is what PyThread_detach_thread returns.
ThreadHandle_dealloc(t, c, ret) ==
    /\ pc[t] = "idle"
    /\ registered' = IF c \in registered THEN llist_remove(registered, c)
                     ELSE registered
    /\ unlinks' = IF c \in registered THEN [unlinks EXCEPT ![c] = @ + 1]
                  ELSE unlinks
    /\ IF joinable[c] # 0
       THEN /\ os_released' = [os_released EXCEPT ![handle[c]] = @ + 1]
            /\ ev' = Event(t, "ThreadHandle.dealloc",
                           IF ret # 0 THEN "unraisable" ELSE "None", c, 1)
       ELSE /\ os_released' = os_released
            /\ ev' = Event(t, "ThreadHandle.dealloc", "None", c, 0)
    /\ freed' = freed \cup {c}
    /\ UNCHANGED <<ident, handle, joinable, thr, pc, loc, forks>>

\* Mutant of PyThread_AfterFork: the handles are marked, not unlinked.
PyThread_AfterFork_keeps_linked(t) ==
    /\ pc[t] = "idle"
    /\ joinable' = [c \in Threads |->
                      IF c \in registered /\ ident[c] # t THEN 0 ELSE joinable[c]]
    /\ thr' = [u \in Threads |->
                 IF u # t /\ thr[u] = "running" THEN "gone" ELSE thr[u]]
    /\ forks' = forks + 1
    /\ ev' = Event(t, "fork", "child", 0, 0)
    /\ UNCHANGED <<ident, handle, os_released, freed, pc, loc, registered, unlinks>>

\* fork() called by thread t, followed into the child: the other threads do
\* not exist there, and _PyThread_AfterFork runs before any Python code.
PyThread_AfterFork(t) ==
    /\ pc[t] = "idle"
    /\ joinable' = [c \in Threads |->
                      IF c \in registered /\ ident[c] # t THEN 0 ELSE joinable[c]]
    /\ registered' = {c \in registered: ident[c] = t}
    /\ unlinks' = [c \in Threads |->
                     IF c \in registered /\ ident[c] # t
                     THEN unlinks[c] + 1 ELSE unlinks[c]]
    /\ thr' = [u \in Threads |->
                 IF u # t /\ thr[u] = "running" THEN "gone" ELSE thr[u]]
    /\ forks' = forks + 1
    /\ ev' = Event(t, "fork", "child", 0, 0)
    /\ UNCHANGED <<ident, handle, os_released, freed, pc, loc>>

\* History of the handles, read off the step just taken.
HandleHistory ==
    /\ joined' = IF ev'.op = "ThreadHandle.join" /\ ev'.res = "None"
                 THEN joined \cup {ev'.a} ELSE joined
    /\ outcome' =
         IF ev'.op = "ThreadHandle.join" /\ ev'.res = "blocked"
         THEN [outcome EXCEPT ![ev'.a] = "joining"]
         ELSE IF ev'.op = "ThreadHandle.join" /\ pc[ev'.t] = "join_wait"
         THEN [outcome EXCEPT ![ev'.a] =
                            IF ev'.res = "None" THEN "joined" ELSE "failed"]
         ELSE IF ev'.op = "ThreadHandle.detach" /\ ev'.res # "ValueError"
         THEN [outcome EXCEPT ![ev'.a] =
                            IF ev'.res = "None" THEN "detached" ELSE "failed"]
         ELSE IF ev'.op = "fork"
         THEN [c \in Threads |->
                 IF c \in registered /\ ident[c] # ev'.t /\ outcome[c] = "none"
                 THEN "forked" ELSE outcome[c]]
         ELSE outcome
    /\ invalidated' = IF ev'.op = "fork"
                      THEN invalidated \cup {c \in registered: ident[c] # ev'.t}
                      ELSE invalidated

\* ------------------------------------------------------- specification
\* The objects as they are made: rlock_new, newlockobject, and no handles.
InitObjects ==
    /\ ident = [c \in Threads |-> 0]
    /\ handle = [c \in Threads |-> 0]
    /\ joinable = [c \in Threads |-> 0]
    /\ os_released = [c \in Threads |-> 0]
    /\ registered = {}
    /\ freed = {}
    /\ forks = 0
    /\ unlinks = [c \in Threads |-> 0]
    /\ invalidated = {}
    /\ joined = {}
    /\ outcome = [c \in Threads |-> "none"]
    /\ counter = 0
    /\ tmp = [t \in Threads |-> 0]
    /\ iter = [t \in Threads |-> 0]
    /\ wpc = [t \in Threads |-> "none"]
    /\ local_state = [a \in Locals |-> "free"]
    /\ dummies = [a \in Locals |-> {}]
    /\ tdict = [t \in Threads |-> NoDict]
    /\ ldict = [d \in DummyIds |-> 0]
    /\ wrote = [t \in Threads |-> NoDict]
    /\ inits = [t \in Threads |-> [a \in Locals |-> "none"]]
    /\ lock_lock = FALSE
    /\ locked = 0
    /\ pc = [t \in Threads |-> "idle"]
    /\ loc = [t \in Threads |-> NoLocals]
    /\ ev = Event(0, "init", "None", 0, 0)
    /\ acquirer = 0
    /\ handoff = <<0, 0>>
    /\ rlock_lock = FALSE
    /\ rlock_owner = 0
    /\ rlock_count = 0
    /\ saved = [t \in Threads |-> NoState]
    /\ depth = [t \in Threads |-> 0]
    /\ snap = [t \in Threads |-> NoSnap]
    /\ between = [t \in Threads |-> 0]
    /\ handback = 0
    /\ rlock_holder = 0
    /\ finalizing = FALSE
    /\ nthreads = 0
    /\ stage = [t \in Threads |-> "none"]
    /\ refs = [t \in Threads |-> "none"]
    /\ tstate = [t \in Threads |-> "none"]
    /\ unraisable = [t \in Threads |-> 0]
    /\ incs = [t \in Threads |-> 0]
    /\ decs = [t \in Threads |-> 0]
    /\ on_delete = [t \in Threads |-> "none"]
    /\ head_lock = 0

\* The threads of the process run already and share the locks.
Init == InitObjects /\ thr = [t \in Threads |-> "running"]

\* Only the main thread runs; it starts the others.
InitMain ==
    /\ InitObjects
    /\ thr = [t \in Threads |-> IF t = MainThread THEN "running" ELSE "unstarted"]

\* With a step on the Lock its history follows and the rest stays.
LockFrame ==
    LockHistory /\ UNCHANGED <<rlockVars, handleVars, counterVars, tlsVars, bootVars>>

LockAcquire ==
    \E t \in Threads, blocking \in BOOLEAN, timeout_obj \in TimeoutArgs:
        lock_PyThread_acquire_lock(t, blocking, timeout_obj) /\ LockFrame

LockAcquireWake == \E t \in Threads: lock_acquire_wake(t) /\ LockFrame

LockAcquireResume == \E t \in Threads: lock_acquire_resume(t) /\ LockFrame

LockAcquireTimeout == \E t \in Threads: lock_acquire_timeout(t) /\ LockFrame

LockAcquireInterrupt == \E t \in Threads: lock_acquire_interrupt(t) /\ LockFrame

LockRelease == \E t \in Threads: lock_PyThread_release_lock(t) /\ LockFrame

LockLocked == \E t \in Threads: lock_locked_lock(t) /\ LockFrame

NextLock ==
    \/ LockAcquire
    \/ LockAcquireWake
    \/ LockAcquireResume
    \/ LockAcquireTimeout
    \/ LockAcquireInterrupt
    \/ LockRelease
    \/ LockLocked

SpecLock == Init /\ [][NextLock]_vars

\* With a step on the RLock its history follows and the rest stays.
RLockFrame ==
    RLockHistory /\ UNCHANGED <<lockVars, handleVars, counterVars, tlsVars, bootVars>>

\* Threads that use the RLock, and the timeouts they pass.
NRLockThreads == 2
RLockThreads == 1..NRLockThreads
RLockTimeoutArgs == {-1, 1}

\* A thread that holds a tuple from _release_save() passes it to
\* _acquire_restore() before it uses the lock otherwise, as threading.Condition
\* does.
RLockAcquire ==
    \E t \in RLockThreads, blocking \in BOOLEAN, timeout_obj \in RLockTimeoutArgs:
        /\ saved[t] = NoState
        /\ rlock_acquire(t, blocking, timeout_obj) /\ RLockFrame

RLockAcquireWake == \E t \in RLockThreads: rlock_acquire_wake(t) /\ RLockFrame

RLockAcquireResume == \E t \in RLockThreads: rlock_acquire_resume(t) /\ RLockFrame

RLockAcquireTimeout == \E t \in RLockThreads: rlock_acquire_timeout(t) /\ RLockFrame

RLockAcquireInterrupt == \E t \in RLockThreads: rlock_acquire_interrupt(t) /\ RLockFrame

RLockRelease ==
    \E t \in RLockThreads:
        /\ saved[t] = NoState
        /\ rlock_release(t) /\ RLockFrame

RLockReleaseSave ==
    \E t \in RLockThreads:
        /\ saved[t] = NoState
        /\ rlock_release_save(t) /\ RLockFrame

RLockAcquireRestore ==
    \E t \in RLockThreads:
        /\ saved[t] # NoState
        /\ rlock_acquire_restore(t, saved[t][1], saved[t][2]) /\ RLockFrame

RLockRestoreWake == \E t \in RLockThreads: rlock_restore_wake(t) /\ RLockFrame

RLockRestoreResume == \E t \in RLockThreads: rlock_restore_resume(t) /\ RLockFrame

RLockRecursionCount ==
    \E t \in RLockThreads:
        /\ saved[t] = NoState
        /\ rlock_recursion_count(t) /\ RLockFrame

RLockIsOwned ==
    \E t \in RLockThreads:
        /\ saved[t] = NoState
        /\ rlock_is_owned(t) /\ RLockFrame

NextRLock ==
    \/ RLockAcquire
    \/ RLockAcquireWake
    \/ RLockAcquireResume
    \/ RLockAcquireTimeout
    \/ RLockAcquireInterrupt
    \/ RLockRelease
    \/ RLockReleaseSave
    \/ RLockAcquireRestore
    \/ RLockRestoreWake
    \/ RLockRestoreResume
    \/ RLockRecursionCount
    \/ RLockIsOwned

SpecRLock == Init /\ [][NextRLock]_vars

\* The RLock with every method open to every thread at any time, and
\* _acquire_restore() called with any count and any owner.
RLockOwnerArgs == {0} \cup RLockThreads

\* The timeouts passed to acquire(): a negative one, none, and a finite one.
AnyTimeoutArgs == {-2, -1, 1}
RLockCountArgs == 0..ULONG_MAX

\* With a step of this specification only the holder of the mutex is
\* followed; the histories of the paired use of save and restore stay.
RLockAnyFrame ==
    /\ RLockHolderHistory
    /\ UNCHANGED <<saved, depth, snap, between, handback>>
    /\ UNCHANGED <<lockVars, handleVars, counterVars, tlsVars, bootVars>>

RLockAnyAcquire ==
    \E t \in RLockThreads, blocking \in BOOLEAN, timeout_obj \in AnyTimeoutArgs:
        rlock_acquire(t, blocking, timeout_obj) /\ RLockAnyFrame

RLockAnyRelease == \E t \in RLockThreads: rlock_release(t) /\ RLockAnyFrame

RLockAnyReleaseSave == \E t \in RLockThreads: rlock_release_save(t) /\ RLockAnyFrame

RLockAnyAcquireRestore ==
    \E t \in RLockThreads, count \in RLockCountArgs, owner \in RLockOwnerArgs:
        rlock_acquire_restore(t, count, owner) /\ RLockAnyFrame

RLockAtForkReinit ==
    \E t \in RLockThreads, err \in BOOLEAN:
        rlock__at_fork_reinit(t, err) /\ RLockAnyFrame

RLockAnyAcquireWake ==
    \E t \in RLockThreads: rlock_acquire_wake(t) /\ RLockAnyFrame

RLockAnyAcquireResume ==
    \E t \in RLockThreads: rlock_acquire_resume(t) /\ RLockAnyFrame

RLockAnyAcquireTimeout ==
    \E t \in RLockThreads: rlock_acquire_timeout(t) /\ RLockAnyFrame

RLockAnyAcquireInterrupt ==
    \E t \in RLockThreads: rlock_acquire_interrupt(t) /\ RLockAnyFrame

RLockAnyRestoreWake ==
    \E t \in RLockThreads: rlock_restore_wake(t) /\ RLockAnyFrame

RLockAnyRestoreResume ==
    \E t \in RLockThreads: rlock_restore_resume(t) /\ RLockAnyFrame

NextRLockAny ==
    \/ RLockAnyAcquire
    \/ RLockAnyAcquireWake
    \/ RLockAnyAcquireResume
    \/ RLockAnyAcquireTimeout
    \/ RLockAnyAcquireInterrupt
    \/ RLockAnyRelease
    \/ RLockAnyReleaseSave
    \/ RLockAnyAcquireRestore
    \/ RLockAnyRestoreWake
    \/ RLockAnyRestoreResume
    \/ RLockAtForkReinit

SpecRLockAny == Init /\ [][NextRLockAny]_vars

\* The RLock as _acquire_restore() sees it, called with the states that
\* _release_save() hands out, with the scheduling its wait relies on: a waiter for a mutex that is free again and again is given it
\* at some time, and a thread that has been given the mutex gets the GIL
\* again.
RestoreCountArgs == {1, 2}

RestoreAcquireRestore ==
    \E t \in RLockThreads, count \in RestoreCountArgs, owner \in RLockThreads:
        rlock_acquire_restore(t, count, owner) /\ RLockAnyFrame

NextRestore ==
    \/ RLockAnyRelease
    \/ RLockAnyReleaseSave
    \/ RestoreAcquireRestore
    \/ RLockAnyRestoreWake
    \/ RLockAnyRestoreResume

RestoreFairness ==
    \A t \in RLockThreads:
        /\ SF_vars(rlock_restore_wake(t) /\ RLockAnyFrame)
        /\ WF_vars(rlock_restore_resume(t) /\ RLockAnyFrame)

SpecRestore == Init /\ [][NextRestore]_vars /\ RestoreFairness

\* The RLock where a thread obtains its mutex: acquire() with its waits,
\* release(), _release_save(), _acquire_restore() and _at_fork_reinit(), by
\* any thread.
NextObtain ==
    \/ \E t \in RLockThreads, blocking \in BOOLEAN, timeout_obj \in RLockTimeoutArgs:
          rlock_acquire(t, blocking, timeout_obj) /\ RLockAnyFrame
    \/ RLockAnyAcquireWake
    \/ RLockAnyAcquireResume
    \/ RLockAnyAcquireTimeout
    \/ RLockAnyAcquireInterrupt
    \/ RLockAnyRelease
    \/ RLockAnyReleaseSave
    \/ RestoreAcquireRestore
    \/ RLockAnyRestoreWake
    \/ RLockAnyRestoreResume
    \/ RLockAtForkReinit

SpecObtain == Init /\ [][NextObtain]_vars

\* A Lock and an RLock used side by side by the same threads: acquire() with
\* its waits, timeouts and interrupts, and release(), of both.
IntrLockAcquire ==
    \E t \in RLockThreads, blocking \in BOOLEAN, timeout_obj \in AnyTimeoutArgs:
        lock_PyThread_acquire_lock(t, blocking, timeout_obj) /\ LockFrame

IntrLockAcquireWake == \E t \in RLockThreads: lock_acquire_wake(t) /\ LockFrame

IntrLockAcquireResume == \E t \in RLockThreads: lock_acquire_resume(t) /\ LockFrame

IntrLockAcquireTimeout == \E t \in RLockThreads: lock_acquire_timeout(t) /\ LockFrame

IntrLockAcquireInterrupt ==
    \E t \in RLockThreads: lock_acquire_interrupt(t) /\ LockFrame

IntrLockRelease ==
    \E t \in RLockThreads: lock_PyThread_release_lock(t) /\ LockFrame

NextInterrupt ==
    \/ IntrLockAcquire
    \/ IntrLockAcquireWake
    \/ IntrLockAcquireResume
    \/ IntrLockAcquireTimeout
    \/ IntrLockAcquireInterrupt
    \/ IntrLockRelease
    \/ RLockAnyAcquire
    \/ RLockAnyAcquireWake
    \/ RLockAnyAcquireResume
    \/ RLockAnyAcquireTimeout
    \/ RLockAnyAcquireInterrupt
    \/ RLockAnyRelease

SpecInterrupt == Init /\ [][NextInterrupt]_vars

\* The same, with _at_fork_reinit() of both locks.
LockAtForkReinit ==
    \E t \in RLockThreads, err \in BOOLEAN:
        lock__at_fork_reinit(t, err) /\ LockFrame

NextFork ==
    \/ IntrLockAcquire
    \/ IntrLockAcquireWake
    \/ IntrLockAcquireResume
    \/ IntrLockAcquireTimeout
    \/ IntrLockAcquireInterrupt
    \/ IntrLockRelease
    \/ LockAtForkReinit
    \/ RLockAnyAcquire
    \/ RLockAnyAcquireWake
    \/ RLockAnyAcquireResume
    \/ RLockAnyAcquireTimeout
    \/ RLockAnyAcquireInterrupt
    \/ RLockAnyRelease
    \/ RLockAtForkReinit

SpecFork == Init /\ [][NextFork]_vars

\* The Lock alone, with the scheduling its waits rely on: the timed wait of
\* the OS ends when its timeout has run out, and a thread that has been given
\* the mutex gets the GIL again.
NextTimed ==
    \/ IntrLockAcquire
    \/ IntrLockAcquireWake
    \/ IntrLockAcquireResume
    \/ IntrLockAcquireTimeout
    \/ IntrLockAcquireInterrupt
    \/ IntrLockRelease

TimedFairness ==
    \A t \in RLockThreads:
        /\ WF_vars(lock_acquire_timeout(t) /\ LockFrame)
        /\ WF_vars(lock_acquire_resume(t) /\ LockFrame)

SpecTimed == Init /\ [][NextTimed]_vars /\ TimedFairness


\* The Lock under fair scheduling: the OS gives a mutex that is free again
\* and again to each thread that keeps waiting for it, and a woken waiter is
\* given the GIL.
NextWake ==
    \/ \E t \in Threads, blocking \in BOOLEAN, timeout_obj \in RLockTimeoutArgs:
          lock_PyThread_acquire_lock(t, blocking, timeout_obj) /\ LockFrame
    \/ LockAcquireWake
    \/ LockAcquireResume
    \/ LockAcquireTimeout
    \/ LockAcquireInterrupt
    \/ LockRelease

WakeFairness ==
    \A t \in Threads:
        /\ SF_vars(lock_acquire_wake(t) /\ LockFrame)
        /\ WF_vars(lock_acquire_resume(t) /\ LockFrame)

SpecWake == Init /\ [][NextWake]_vars /\ WakeFairness

\* With a step on a handle its history follows and the rest stays.
HandleFrame ==
    HandleHistory /\ UNCHANGED <<lockVars, rlockVars, counterVars, tlsVars, bootVars>>

HandleStart ==
    \E t \in Threads, c \in Threads \ {MainThread}, err \in BOOLEAN:
        /\ thr[t] = "running"
        /\ thread_PyThread_start_joinable_thread(t, c, err) /\ HandleFrame

\* A handle a thread can call a method of: made, and not destroyed.
LiveHandles == {c \in Threads: ident[c] # 0 /\ c \notin freed}

\* The handles some thread is inside join() of; the call holds a reference.
InJoin == {c \in Threads: \E u \in Threads: pc[u] = "join_wait" /\ loc[u][1] = c}

\* Forks followed.
MaxForks == 1

HandleJoin ==
    \E t \in Threads, c \in LiveHandles:
        /\ thr[t] = "running"
        /\ ThreadHandle_join(t, c) /\ HandleFrame

HandleJoinReturn ==
    \E t \in Threads, ret \in OSResults:
        /\ thr[t] = "running"
        /\ ThreadHandle_join_return(t, ret) /\ HandleFrame

HandleDetach ==
    \E t \in Threads, c \in LiveHandles, ret \in OSResults:
        /\ thr[t] = "running"
        /\ ThreadHandle_detach(t, c, ret) /\ HandleFrame

HandleThreadExit ==
    \E c \in Threads \ {MainThread}: thread_run(c) /\ HandleFrame

\* The last reference to a handle is dropped.
HandleDealloc ==
    \E t \in Threads, c \in LiveHandles \ InJoin, ret \in OSResults:
        /\ thr[t] = "running"
        /\ ThreadHandle_dealloc(t, c, ret) /\ HandleFrame

HandleFork ==
    \E t \in Threads:
        /\ thr[t] = "running" /\ forks < MaxForks
        /\ PyThread_AfterFork(t) /\ HandleFrame

NextHandle ==
    \/ HandleStart
    \/ HandleJoin
    \/ HandleJoinReturn
    \/ HandleDetach
    \/ HandleThreadExit
    \/ HandleDealloc
    \/ HandleFork

SpecHandle == InitMain /\ [][NextHandle]_vars

\* Threads from their start to their end: the launchers, the trampoline, the
\* finalization of the runtime, _count(), and join() on the handles.
BootFrame ==
    /\ HandleHistory /\ TLSHistory /\ BootHistory
    /\ UNCHANGED <<lockVars, rlockVars, counterVars, on_delete, head_lock>>

\* Thread t is given the GIL when it asks for it: once the runtime finalizes,
\* only the main thread is.
CanTakeGIL(t) == t = MainThread \/ ~finalizing

\* Thread t runs Python code: the main thread, or a thread inside the call
\* of its function.
CanRun(t) ==
    /\ thr[t] = "running"
    /\ CanTakeGIL(t)
    /\ t = MainThread \/ stage[t] = "call"

BootStartJoinable ==
    \E t \in Threads, c \in Threads \ {MainThread}, r \in StartResults:
        /\ CanRun(t)
        /\ finalizing => r = "refused"
        /\ thread_PyThread_start_joinable_thread(t, c, r # "ok")
        /\ do_start_new_thread(c, r)
        /\ UNCHANGED <<local_state, dummies, tdict, ldict>>
        /\ BootFrame

BootStartNew ==
    \E t \in Threads, c \in Threads \ {MainThread}, r \in StartResults:
        /\ CanRun(t)
        /\ finalizing => r = "refused"
        /\ thread_PyThread_start_new_thread(t, c, r # "ok")
        /\ do_start_new_thread(c, r)
        /\ UNCHANGED <<local_state, dummies, tdict, ldict>>
        /\ BootFrame

BootEnter == \E c \in Threads \ {MainThread}: thread_run_enter(c) /\ BootFrame

BootCall == \E c \in Threads \ {MainThread}: thread_run_call(c) /\ BootFrame

BootResult ==
    \E c \in Threads \ {MainThread}, exc \in Outcomes:
        thread_run_result(c, exc) /\ BootFrame

BootExit == \E c \in Threads \ {MainThread}: thread_run_exit(c) /\ BootFrame

BootFinalize == runtime_finalize /\ BootFrame

BootCount == \E t \in Threads: CanRun(t) /\ thread__count(t) /\ BootFrame

BootJoin ==
    \E t \in Threads, c \in LiveHandles:
        /\ CanRun(t)
        /\ ThreadHandle_join(t, c)
        /\ UNCHANGED <<finalizing, nthreads, stage, refs, tstate, unraisable>>
        /\ UNCHANGED <<local_state, dummies, tdict, ldict>>
        /\ BootFrame

BootJoinReturn ==
    \E t \in Threads, ret \in OSResults:
        /\ CanTakeGIL(t)
        /\ ThreadHandle_join_return(t, ret)
        /\ UNCHANGED <<finalizing, nthreads, stage, refs, tstate, unraisable>>
        /\ UNCHANGED <<local_state, dummies, tdict, ldict>>
        /\ BootFrame

NextBoot ==
    \/ BootStartJoinable
    \/ BootStartNew
    \/ BootEnter
    \/ BootCall
    \/ BootResult
    \/ BootExit
    \/ BootFinalize
    \/ BootCount
    \/ BootJoin
    \/ BootJoinReturn

SpecBoot == InitMain /\ [][NextBoot]_vars

\* Threads with a sentinel lock: a thread sets its sentinel and acquires it,
\* other threads wait for it in acquire(), and the end of the thread
\* releases it.  The scheduling the waiters rely on: the OS gives a free
\* mutex to a waiter, and a waiter that has it gets the GIL again.
SentinelFrame ==
    /\ HandleHistory /\ TLSHistory /\ BootHistory
    /\ UNCHANGED <<acquirer, handoff, rlockVars, counterVars, head_lock>>

\* The sentinel lock exists.
SentinelAlive == \E c \in Threads: on_delete[c] \in {"set", "released"}

SentinelLockStep(t) ==
    \/ \E blocking \in BOOLEAN, timeout_obj \in AnyTimeoutArgs:
          /\ CanRun(t) /\ SentinelAlive
          /\ lock_PyThread_acquire_lock(t, blocking, timeout_obj)
    \/ lock_acquire_wake(t)
    \/ CanTakeGIL(t) /\ lock_acquire_resume(t)
    \/ CanTakeGIL(t) /\ lock_acquire_timeout(t)
    \/ CanTakeGIL(t) /\ lock_acquire_interrupt(t)

NextSentinel ==
    \/ \E t \in RLockThreads, c \in RLockThreads \ {MainThread}, r \in StartResults:
          /\ CanRun(t)
          /\ thread_PyThread_start_new_thread(t, c, r # "ok")
          /\ do_start_new_thread(c, r)
          /\ UNCHANGED <<local_state, dummies, tdict, ldict>>
          /\ BootFrame
    \/ BootEnter
    \/ BootCall
    \/ BootResult
    \/ \E c \in Threads \ {MainThread}:
          thread_run_exit(c) /\ release_sentinel(c) /\ SentinelFrame
    \/ \E t \in RLockThreads \ {MainThread}:
          /\ CanRun(t) /\ thread__set_sentinel(t)
          /\ UNCHANGED <<finalizing, nthreads, stage, refs, tstate, unraisable>>
          /\ UNCHANGED <<handleVars, tlsVars>> /\ SentinelFrame
    \/ \E t \in RLockThreads, c \in RLockThreads:
          /\ CanRun(t) /\ lock_dealloc(t, c)
          /\ UNCHANGED <<finalizing, nthreads, stage, refs, tstate, unraisable>>
          /\ UNCHANGED <<handleVars, tlsVars>> /\ SentinelFrame
    \/ \E t \in RLockThreads: SentinelLockStep(t) /\ LockFrame

SentinelFairness ==
    \A t \in RLockThreads:
        /\ WF_vars(lock_acquire_wake(t) /\ LockFrame)
        /\ WF_vars(lock_acquire_resume(t) /\ LockFrame)

SpecSentinel == InitMain /\ [][NextSentinel]_vars /\ SentinelFairness

\* Joinable threads and join(), with the scheduling join() relies on: once
\* the OS wait for the thread can end, it ends, and the caller goes on when
\* it is given the GIL.
JoinReturnOf(t) ==
    \E ret \in OSResults:
        /\ CanTakeGIL(t)
        /\ ThreadHandle_join_return(t, ret)
        /\ UNCHANGED <<finalizing, nthreads, stage, refs, tstate, unraisable>>
        /\ UNCHANGED <<local_state, dummies, tdict, ldict>>
        /\ BootFrame

NextJoin ==
    \/ BootStartJoinable
    \/ BootEnter
    \/ BootCall
    \/ BootResult
    \/ BootExit
    \/ BootFinalize
    \/ BootJoin
    \/ BootJoinReturn

JoinFairness == \A t \in Threads: WF_vars(JoinReturnOf(t))

SpecJoin == InitMain /\ [][NextJoin]_vars /\ JoinFairness

\* ---------------------------------------------- the counter scenario
\* Increments each worker makes.
KIncr == 2

\* The workers: every thread but the main thread, which starts and joins them.
Workers == Threads \ {MainThread}

\* What the worker function calls next after the step just taken.
WorkerNext(t, after) ==
    wpc' = [wpc EXCEPT ![t] = after]

\* With a step of the scenario the histories follow and the RLock stays.
CounterFrame ==
    /\ LockHistory /\ HandleHistory
    /\ UNCHANGED <<rlockVars, freed, forks, unlinks, tlsVars, bootVars>>

\* The main thread starts a worker.
CounterStart ==
    \E c \in Workers, err \in BOOLEAN:
        /\ thread_PyThread_start_joinable_thread(MainThread, c, err)
        /\ WorkerNext(c, IF err THEN "none" ELSE "acquire")
        /\ UNCHANGED <<lockVars, counter, tmp, iter>>
        /\ CounterFrame

\* A worker calls lock.acquire().
CounterAcquire ==
    \E t \in Workers:
        /\ wpc[t] = "acquire"
        /\ lock_PyThread_acquire_lock(t, TRUE, -1)
        /\ WorkerNext(t, IF ev'.res = "True" THEN "read" ELSE "acquire")
        /\ UNCHANGED <<thr, ident, handle, joinable, os_released, registered, counter, tmp, iter>>
        /\ CounterFrame

CounterAcquireWake ==
    \E t \in Workers:
        /\ lock_acquire_wake(t)
        /\ UNCHANGED <<thr, ident, handle, joinable, os_released, registered, counterVars>>
        /\ CounterFrame

CounterAcquireResume ==
    \E t \in Workers:
        /\ lock_acquire_resume(t)
        /\ WorkerNext(t, IF ev'.res = "True" THEN "read" ELSE "acquire")
        /\ UNCHANGED <<thr, ident, handle, joinable, os_released, registered, counter, tmp, iter>>
        /\ CounterFrame

\* A worker reads the counter.
CounterRead ==
    \E t \in Workers:
        /\ wpc[t] = "read"
        /\ tmp' = [tmp EXCEPT ![t] = counter]
        /\ WorkerNext(t, "write")
        /\ ev' = Event(t, "read", "int", counter, 0)
        /\ UNCHANGED <<lock_lock, locked, pc, loc, counter, iter>>
        /\ UNCHANGED <<thr, ident, handle, joinable, os_released, registered>>
        /\ CounterFrame

\* A worker writes the value it read plus one.
CounterWrite ==
    \E t \in Workers:
        /\ wpc[t] = "write"
        /\ counter' = tmp[t] + 1
        /\ WorkerNext(t, "release")
        /\ ev' = Event(t, "write", "None", tmp[t] + 1, 0)
        /\ UNCHANGED <<lock_lock, locked, pc, loc, tmp, iter>>
        /\ UNCHANGED <<thr, ident, handle, joinable, os_released, registered>>
        /\ CounterFrame

\* A worker calls lock.release(); after KIncr increments its function returns.
CounterRelease ==
    \E t \in Workers:
        /\ wpc[t] = "release"
        /\ lock_PyThread_release_lock(t)
        /\ iter' = [iter EXCEPT ![t] = @ + 1]
        /\ WorkerNext(t, IF iter[t] + 1 = KIncr THEN "return" ELSE "acquire")
        /\ UNCHANGED <<thr, ident, handle, joinable, os_released, registered, counter, tmp>>
        /\ CounterFrame

\* The function of a worker has returned and thread_run ends.
CounterExit ==
    \E t \in Workers:
        /\ wpc[t] = "return"
        /\ thread_run(t)
        /\ WorkerNext(t, "done")
        /\ UNCHANGED <<lock_lock, locked, counter, tmp, iter>>
        /\ CounterFrame

\* The main thread joins a worker it has started.
CounterJoin ==
    \E c \in Workers:
        /\ ident[c] # 0
        /\ ThreadHandle_join(MainThread, c)
        /\ UNCHANGED <<lock_lock, locked, counterVars>>
        /\ CounterFrame

CounterJoinReturn ==
    \E ret \in OSResults:
        /\ ThreadHandle_join_return(MainThread, ret)
        /\ UNCHANGED <<lock_lock, locked, counterVars>>
        /\ CounterFrame

NextCounter ==
    \/ CounterStart
    \/ CounterAcquire
    \/ CounterAcquireWake
    \/ CounterAcquireResume
    \/ CounterRead
    \/ CounterWrite
    \/ CounterRelease
    \/ CounterExit
    \/ CounterJoin
    \/ CounterJoinReturn

SpecCounter == InitMain /\ [][NextCounter]_vars

\* With a step on a thread-local object its history follows; the locks, the
\* handles and the counter stay.
TLSFrame ==
    /\ TLSHistory
    /\ UNCHANGED <<lockVars, rlockVars, counterVars, joined, outcome, invalidated>>
    /\ UNCHANGED bootVars

\* Nothing of the handles changes.
NoHandleStep ==
    UNCHANGED <<thr, ident, handle, joinable, os_released, registered, freed,
                forks, unlinks>>

\* Threads that use the thread-local objects.
NLocalThreads == 2
LocalThreads == 1..NLocalThreads

TLSStart ==
    \E t \in LocalThreads, c \in LocalThreads \ {MainThread}, err \in BOOLEAN:
        /\ thr[t] = "running"
        /\ thread_PyThread_start_new_thread(t, c, err)
        /\ UNCHANGED <<local_state, dummies, tdict, ldict>>
        /\ TLSFrame

TLSExit ==
    \E c \in LocalThreads \ {MainThread}: thread_run(c) /\ TLSFrame

TLSNew ==
    \E t \in LocalThreads, a \in Locals, args \in BOOLEAN:
        /\ thr[t] = "running"
        /\ local_new(t, a, args) /\ NoHandleStep /\ TLSFrame

TLSSet ==
    \E t \in LocalThreads, a \in Locals, v \in Values:
        /\ thr[t] = "running"
        /\ local_setattro(t, a, v) /\ NoHandleStep /\ TLSFrame

TLSGet ==
    \E t \in LocalThreads, a \in Locals:
        /\ thr[t] = "running"
        /\ local_getattro(t, a) /\ NoHandleStep /\ TLSFrame

\* The last reference to a localobject is dropped.
TLSDealloc ==
    \E t \in LocalThreads, a \in Locals:
        /\ thr[t] = "running"
        /\ local_clear_begin(t, a) /\ NoHandleStep /\ TLSFrame

TLSDeallocWalk ==
    \E t \in LocalThreads:
        /\ thr[t] = "running"
        /\ local_clear_walk(t) /\ NoHandleStep /\ TLSFrame

NextTLS ==
    \/ TLSStart
    \/ TLSExit
    \/ TLSNew
    \/ TLSSet
    \/ TLSGet
    \/ TLSDealloc
    \/ TLSDeallocWalk

SpecTLS == InitMain /\ [][NextTLS]_vars

\* Thread-local objects of a type with a tp_init of its own.
NextInit ==
    \/ TLSStart
    \/ TLSExit
    \/ \E t \in LocalThreads, a \in Locals, fail \in BOOLEAN:
          /\ thr[t] = "running"
          /\ local_new_tp_init(t, a, fail) /\ NoHandleStep /\ TLSFrame
    \/ \E t \in LocalThreads, a \in Locals, fail \in BOOLEAN:
          /\ thr[t] = "running"
          /\ ldict_tp_init(t, a, fail) /\ NoHandleStep /\ TLSFrame
    \/ TLSDealloc
    \/ TLSDeallocWalk

SpecInit == InitMain /\ [][NextInit]_vars

\* ------------------------------------------------- the runtime's head lock
\* HEAD_LOCK(&_PyRuntime) by thread t: it waits until the mutex is free.
HEAD_LOCK(t) == head_lock = 0 /\ head_lock' = t

\* HEAD_UNLOCK(&_PyRuntime) by thread t.
HEAD_UNLOCK(t) == head_lock = t /\ head_lock' = 0

\* llist_insert_tail: the list with the node.
llist_insert_tail(list, c) == list \cup {c}

\* Thread t is inside a registry operation on the handle of thread c.
OnHandle(c) ==
    \E u \in Threads:
        pc[u] \in {"new_locked", "new_linked", "dealloc_locked", "dealloc_unlinked"}
        /\ loc[u][1] = c

\* new_thread_handle for the thread c that thread t is about to start, one
\* statement at a time: HEAD_LOCK, llist_insert_tail, HEAD_UNLOCK; with the
\* last, do_start_new_thread makes the thread and the handle is returned.
new_thread_handle(t, c) ==
    /\ CASE pc[t] = "idle" ->
              /\ thr[c] = "unstarted" /\ ~OnHandle(c)
              /\ HEAD_LOCK(t)
              /\ pc' = [pc EXCEPT ![t] = "new_locked"]
              /\ loc' = [loc EXCEPT ![t] = <<c, 0>>]
              /\ ev' = Event(t, "new_thread_handle", "HEAD_LOCK", c, 0)
              /\ UNCHANGED <<ident, handle, joinable, thr, registered>>
         [] pc[t] = "new_locked" /\ loc[t][1] = c ->
              /\ registered' = llist_insert_tail(registered, c)
              /\ pc' = [pc EXCEPT ![t] = "new_linked"]
              /\ ev' = Event(t, "new_thread_handle", "llist_insert_tail", c, 0)
              /\ UNCHANGED <<ident, handle, joinable, thr, loc, head_lock>>
         [] pc[t] = "new_linked" /\ loc[t][1] = c ->
              /\ HEAD_UNLOCK(t)
              /\ ident' = [ident EXCEPT ![c] = c]
              /\ handle' = [handle EXCEPT ![c] = c]
              /\ joinable' = [joinable EXCEPT ![c] = 1]
              /\ thr' = [thr EXCEPT ![c] = "running"]
              /\ pc' = [pc EXCEPT ![t] = "idle"]
              /\ loc' = [loc EXCEPT ![t] = NoLocals]
              /\ ev' = Event(t, "start_joinable_thread", "handle", c, 0)
              /\ UNCHANGED registered
         [] OTHER -> FALSE
    /\ UNCHANGED <<os_released, freed, forks, unlinks>>

\* ThreadHandle_dealloc of the handle of thread c by thread t, one statement
\* at a time: HEAD_LOCK, llist_remove if the node is linked, HEAD_UNLOCK;
\* with the last, a handle still joinable is detached, and the handle freed.
ThreadHandle_dealloc_steps(t, c) ==
    /\ CASE pc[t] = "idle" ->
              /\ ident[c] # 0 /\ c \notin freed /\ ~OnHandle(c)
              /\ HEAD_LOCK(t)
              /\ pc' = [pc EXCEPT ![t] = "dealloc_locked"]
              /\ loc' = [loc EXCEPT ![t] = <<c, 0>>]
              /\ ev' = Event(t, "ThreadHandle.dealloc", "HEAD_LOCK", c, 0)
              /\ UNCHANGED <<registered, unlinks, os_released, freed>>
         [] pc[t] = "dealloc_locked" /\ loc[t][1] = c ->
              /\ registered' = IF c \in registered THEN llist_remove(registered, c)
                               ELSE registered
              /\ unlinks' = IF c \in registered THEN [unlinks EXCEPT ![c] = @ + 1]
                            ELSE unlinks
              /\ pc' = [pc EXCEPT ![t] = "dealloc_unlinked"]
              /\ ev' = Event(t, "ThreadHandle.dealloc", "llist_remove", c, 0)
              /\ UNCHANGED <<loc, head_lock, os_released, freed>>
         [] pc[t] = "dealloc_unlinked" /\ loc[t][1] = c ->
              /\ HEAD_UNLOCK(t)
              /\ os_released' = IF joinable[c] # 0
                                THEN [os_released EXCEPT ![handle[c]] = @ + 1]
                                ELSE os_released
              /\ freed' = freed \cup {c}
              /\ pc' = [pc EXCEPT ![t] = "idle"]
              /\ loc' = [loc EXCEPT ![t] = NoLocals]
              /\ ev' = Event(t, "ThreadHandle.dealloc", "None", c, joinable[c])
              /\ UNCHANGED <<registered, unlinks>>
         [] OTHER -> FALSE
    /\ UNCHANGED <<ident, handle, joinable, thr, forks>>

\* PyInterpreterState_ThreadHead and PyThreadState_Next: the thread states of
\* the interpreter in list order, 0 at the end of the list.
PyThreadState_Next(u) == IF u < NThreads THEN u + 1 ELSE 0

\* The walk of local_clear by thread t over the thread states, one statement
\* at a time; loc[t] is <<address of the object, tstate>>.  HEAD_LOCK and the
\* read of the first or next thread state; HEAD_UNLOCK, and the end of the
\* walk after the last thread state; PyDict_Pop on the dict of tstate.
local_clear_steps(t) ==
    /\ CASE pc[t] = "local_clear" ->
              /\ HEAD_LOCK(t)
              /\ pc' = [pc EXCEPT ![t] = "clear_locked"]
              /\ loc' = [loc EXCEPT ![t] = <<loc[t][1], PyThreadState_Next(loc[t][2])>>]
              /\ ev' = Event(t, "local_clear", "HEAD_LOCK", loc[t][1], loc'[t][2])
              /\ UNCHANGED <<tdict, local_state>>
         [] pc[t] = "clear_locked" ->
              /\ HEAD_UNLOCK(t)
              /\ IF loc[t][2] # 0
                 THEN /\ pc' = [pc EXCEPT ![t] = "clear_pop"]
                      /\ ev' = Event(t, "local_clear", "HEAD_UNLOCK", loc[t][1], loc[t][2])
                      /\ UNCHANGED <<loc, local_state>>
                 ELSE /\ pc' = [pc EXCEPT ![t] = "idle"]
                      /\ loc' = [loc EXCEPT ![t] = NoLocals]
                      /\ local_state' = [local_state EXCEPT ![loc[t][1]] = "free"]
                      /\ ev' = Event(t, "local.dealloc", "None", loc[t][1], 0)
              /\ UNCHANGED tdict
         [] pc[t] = "clear_pop" ->
              /\ tdict' = [tdict EXCEPT ![loc[t][2]][loc[t][1]] = 0]
              /\ pc' = [pc EXCEPT ![t] = "local_clear"]
              /\ ev' = Event(t, "local_clear", "PyDict_Pop", loc[t][1], loc[t][2])
              /\ UNCHANGED <<loc, local_state, head_lock>>
         [] OTHER -> FALSE
    /\ UNCHANGED <<dummies, ldict>>

\* The registries one statement at a time: handles are made and destroyed,
\* thread-local objects are made, used and destroyed, and a thread forks.
RegistryFrame ==
    /\ HandleHistory /\ TLSHistory
    /\ UNCHANGED <<lockVars, rlockVars, counterVars>>
    /\ UNCHANGED <<finalizing, nthreads, stage, refs, tstate, unraisable, incs,
                    decs, on_delete>>

\* The object whose walk is followed.
RegistryLocal == 1

NextRegistry ==
    \/ \E t \in Threads, c \in Threads \ {MainThread}:
          /\ thr[t] = "running" /\ new_thread_handle(t, c)
          /\ UNCHANGED <<local_state, dummies, tdict, ldict>> /\ RegistryFrame
    \/ \E t \in Threads, c \in Threads \ {MainThread}:
          /\ thr[t] = "running" /\ ThreadHandle_dealloc_steps(t, c)
          /\ UNCHANGED <<local_state, dummies, tdict, ldict>> /\ RegistryFrame
    \/ \E t \in Threads:
          /\ thr[t] = "running" /\ forks < MaxForks /\ head_lock = 0
          /\ \A u \in Threads: pc[u] = "idle"
          /\ PyThread_AfterFork(t)
          /\ UNCHANGED <<local_state, dummies, tdict, ldict, head_lock>>
          /\ RegistryFrame
    \/ \E t \in Threads:
          /\ thr[t] = "running" /\ local_new(t, RegistryLocal, FALSE)
          /\ NoHandleStep /\ UNCHANGED head_lock /\ RegistryFrame
    \/ \E t \in Threads, v \in {1}:
          /\ thr[t] = "running" /\ local_setattro(t, RegistryLocal, v)
          /\ NoHandleStep /\ UNCHANGED head_lock /\ RegistryFrame
    \/ \E t \in Threads:
          /\ thr[t] = "running" /\ local_clear_begin(t, RegistryLocal)
          /\ NoHandleStep /\ UNCHANGED head_lock /\ RegistryFrame
    \/ \E t \in Threads:
          /\ thr[t] = "running" /\ local_clear_steps(t)
          /\ NoHandleStep /\ RegistryFrame

SpecRegistry == InitMain /\ [][NextRegistry]_vars

\* ------------------------------------------------------- claims: Lock
\* C1: a Lock is held at most once.  An acquire() returns True only when no
\* earlier acquire() that returned True is still unreleased, and while such an
\* acquisition is outstanding the OS mutex is held and the flag is set.
C1_MutualExclusion ==
    [][ /\ (ev'.op = "Lock.acquire" /\ ev'.res = "True") => acquirer = 0
        /\ acquirer' # 0 => (lock_lock' /\ locked' = 1) ]_vars

\* C1 happens: an acquire() has just returned True while another thread is
\* blocked in acquire() on the same lock.
C1_Witness ==
    /\ ev.op = "Lock.acquire" /\ ev.res = "True"
    /\ \E u \in Threads: u # ev.t /\ pc[u] = "lock_wait"

\* C3: release() of a Lock whose flag is 0 fails with RuntimeError and leaves
\* the flag and the mutex as they were, whichever thread calls it.
C3_ReleaseUnlockedFails ==
    [][ (ev'.op = "Lock.release" /\ locked = 0)
        => (ev'.res = "RuntimeError" /\ locked' = locked
            /\ lock_lock' = lock_lock) ]_vars

\* C3 happens: a release() failed although the mutex was held at that moment
\* (by a waiter that was handed the mutex and has not set the flag yet).
C3_Witness ==
    /\ ev.op = "Lock.release" /\ ev.res = "RuntimeError"
    /\ lock_lock /\ locked = 0

\* C4: acquire(blocking=False) never blocks.  With the mutex free it returns
\* True, takes the mutex and sets the flag; with the mutex held it returns
\* False and changes nothing, also when the caller is the thread that holds it.
C4_NonBlockingAcquire ==
    [][ (ev'.op = "Lock.acquire" /\ ev'.a = 0 /\ ev'.b = -1)
        => /\ pc' = pc
           /\ IF ~lock_lock
              THEN ev'.res = "True" /\ locked' = 1 /\ lock_lock'
              ELSE ev'.res = "False" /\ locked' = locked /\ lock_lock' ]_vars

\* C4 happens: the thread that holds the lock made a non-blocking acquire()
\* and got False.
C4_Witness ==
    /\ ev.op = "Lock.acquire" /\ ev.a = 0 /\ ev.res = "False"
    /\ acquirer = ev.t

\* C5: a Lock has no owner.  release() by a thread other than the one whose
\* acquire() returned True succeeds, clears the flag and frees the mutex, and
\* an acquire() that any thread starts next returns True.
C5_ReleaseByOtherThread ==
    [][ /\ (ev'.op = "Lock.release" /\ acquirer # 0 /\ ev'.t # acquirer)
           => (ev'.res = "None" /\ locked' = 0 /\ ~lock_lock')
        /\ (/\ ev.op = "Lock.release" /\ ev.res = "None"
            /\ ev'.op = "Lock.acquire" /\ pc[ev'.t] = "idle"
            /\ ev'.res \notin {"ValueError", "OverflowError"})
           => ev'.res = "True" ]_vars

\* C5 happens: thread B released the lock thread A had acquired, and a third
\* party or A or B has acquired it again.
C5_Witness ==
    /\ handoff # <<0, 0>>
    /\ ev.op = "Lock.acquire" /\ ev.res = "True"

\* ------------------------------------------------------ claims: RLock
\* C6: after n acquire()s by one thread with no release between them its
\* recursion count is n: in every state the count a thread reads is depth,
\* the number of its successful acquire()s not yet undone by a release()
\* (a _release_save() takes the whole hold of the owner it captures away and
\* the _acquire_restore() of that tuple gives it back).  While a thread holds
\* the lock no acquire() of another thread returns True and a non-blocking
\* one returns False and changes nothing; each release() by the holder takes
\* one off, and with the release that brings the depth to 0, and no earlier
\* one, the lock is free (count 0, no owner, mutex released).
C6_RecursionDepth ==
    [][ /\ \A t \in Threads: RecursionCount(t)' = depth'[t]
        /\ (/\ ev'.op = "RLock.acquire"
            /\ \E o \in Threads: o # ev'.t /\ depth[o] > 0)
           => /\ ev'.res # "True"
              /\ (ev'.a = 0 /\ ev'.b = -1)
                 => /\ ev'.res = "False"
                    /\ UNCHANGED <<rlock_lock, rlock_owner, rlock_count, pc>>
        /\ (ev'.op = "RLock.release" /\ depth[ev'.t] > 0)
           => /\ ev'.res = "None"
              /\ IF depth[ev'.t] = 1
                 THEN rlock_count' = 0 /\ rlock_owner' = 0 /\ ~rlock_lock'
                 ELSE /\ rlock_lock' /\ rlock_owner' = ev'.t
                      /\ rlock_count' = depth[ev'.t] - 1 ]_vars

\* C6 happens: a thread has acquired the lock three times and the
\* non-blocking acquire() of another thread has just returned False.
C6_Witness ==
    /\ ev.op = "RLock.acquire" /\ ev.a = 0 /\ ev.res = "False"
    /\ \E o \in Threads: o # ev.t /\ depth[o] = 3 /\ RecursionCount(o) = 3

\* C7: release() of an RLock by a thread that is not its owner (the lock is
\* free or another thread owns it) fails with RuntimeError and leaves owner,
\* count and the mutex as they were.
C7_ReleaseByNonOwner ==
    [][ (ev'.op = "RLock.release" /\ (rlock_owner # ev'.t \/ rlock_count = 0))
        => /\ ev'.res = "RuntimeError"
           /\ UNCHANGED <<rlock_owner, rlock_count, rlock_lock>> ]_vars

\* C7 happens: a release() failed while another thread owned the lock.
C7_Witness ==
    /\ ev.op = "RLock.release" /\ ev.res = "RuntimeError"
    /\ rlock_owner \notin {0, ev.t} /\ rlock_count > 0 /\ rlock_lock

\* C8: when _acquire_restore() returns, called with the tuple the caller's
\* _release_save() returned, then owner, count and the state of the mutex are
\* what they were when that _release_save() was called, whatever the other
\* threads did with the lock in between.
C8_SaveRestoreNoOp ==
    [][ (ev'.op = "RLock._acquire_restore" /\ ev'.res = "None")
        => /\ snap[ev'.t] # NoSnap
           /\ <<rlock_owner', rlock_count', rlock_lock'>> = snap[ev'.t] ]_vars

\* C8 happens: an _acquire_restore() has just returned, and between it and
\* the caller's _release_save() another thread acquired and released the lock.
C8_Witness ==
    /\ ev.op = "RLock._acquire_restore" /\ ev.res = "None"
    /\ handback = 2

\* C9: _release_save() by the owner X at depth n returns (n, X) and leaves the
\* lock free in that one step (count 0, no owner, mutex released); an
\* acquire() that a thread starts next returns True; _acquire_restore() called
\* while the mutex is free returns at once, and whenever _acquire_restore(n, X)
\* returns, the recursion count of X is n.
C9_SaveGivesUpRestorePutsBack ==
    [][ /\ (ev'.op = "RLock._release_save" /\ depth[ev'.t] > 0)
           => /\ ev'.res = "tuple" /\ ev'.a = depth[ev'.t] /\ ev'.b = ev'.t
              /\ rlock_count' = 0 /\ rlock_owner' = 0 /\ ~rlock_lock'
        /\ (/\ ev.op = "RLock._release_save" /\ ev.res = "tuple"
            /\ ev'.op = "RLock.acquire" /\ pc[ev'.t] = "idle"
            /\ ev'.res \notin {"ValueError", "OverflowError"})
           => ev'.res = "True"
        /\ (ev'.op = "RLock._acquire_restore" /\ pc[ev'.t] = "idle" /\ ~rlock_lock)
           => ev'.res = "None"
        /\ (ev'.op = "RLock._acquire_restore" /\ ev'.res = "None")
           => \A x \in Threads: x = ev'.b => RecursionCount(x)' = ev'.a ]_vars

\* C9 happens: X saved at depth 3, another thread acquired and released the
\* lock, and X's _acquire_restore(3, X) has just returned.
C9_Witness ==
    /\ ev.op = "RLock._acquire_restore" /\ ev.res = "None"
    /\ ev.a = 3 /\ ev.b = ev.t /\ handback = 2
    /\ RecursionCount(ev.t) = 3

\* ------------------------------------------------ claims: ThreadHandle
\* C10: of the join() and detach() calls made on one joinable handle by
\* threads other than the handle's own, in any interleaving, exactly one
\* wins.  The call that finds the handle joinable clears the flag and is the
\* one that calls the OS primitive (PyThread_join_thread or
\* PyThread_detach_thread); every call that finds the flag cleared fails with
\* ValueError and calls no primitive; the primitive is never called twice on
\* one native handle; and once a join() has returned None the handle is not
\* joinable, so a second join() fails with ValueError.
C10_ExactlyOneWins ==
    [][ /\ \A c \in Threads: os_released'[c] <= 1
        /\ \A c \in joined': joinable'[c] = 0
        /\ (/\ ev'.op \in {"ThreadHandle.join", "ThreadHandle.detach"}
            /\ pc[ev'.t] = "idle" /\ ev'.t # ident[ev'.a])
           => IF joinable[ev'.a] = 1
              THEN /\ ev'.res # "ValueError"
                   /\ joinable'[ev'.a] = 0
                   /\ os_released'[handle[ev'.a]] = os_released[handle[ev'.a]] + 1
              ELSE /\ ev'.res = "ValueError"
                   /\ UNCHANGED <<joinable, os_released, pc>> ]_vars

\* C10 happens: a join() or detach() has just lost the race, failing with
\* ValueError while the winner is still inside PyThread_join_thread, on a
\* handle whose primitive has been called once.
C10_Witness ==
    /\ ev.op \in {"ThreadHandle.join", "ThreadHandle.detach"}
    /\ ev.res = "ValueError" /\ ev.t # ident[ev.a]
    /\ os_released[handle[ev.a]] = 1
    /\ \E u \in Threads \ {ev.t}: pc[u] = "join_wait" /\ loc[u][1] = ev.a

\* ------------------------------------------- claims: counter scenario
\* The increments worker t has written to the counter.
Written(t) == iter[t] + (IF wpc[t] = "release" THEN 1 ELSE 0)

\* The increments all the workers have written.
TotalWritten == Cardinality({p \in Workers \X (1..(KIncr + 1)): p[2] <= Written(p[1])})

\* The workers the main thread has started.
Started == {c \in Workers: ident[c] # 0}

\* C2: when every one of the N joinable threads started has made its K
\* increments under the Lock and has been joined, the counter is N*K; no
\* interleaving loses an update: at every moment the counter is the number of
\* increments written so far.
C2_CounterTotal ==
    /\ counter = TotalWritten
    /\ Started \subseteq joined => counter = Cardinality(Started) * KIncr

\* C2 happens: every thread but the main thread was started as a worker, has
\* made its increments and has been joined.
C2_Witness ==
    /\ Started = Workers /\ joined = Workers
    /\ \A c \in Workers: iter[c] = KIncr /\ thr[c] = "exited"
    /\ counter = (NThreads - 1) * KIncr

\* C11 as claimed: join() called by the thread the handle stands for fails
\* with ThreadError and does not block, whatever the state of the handle.
C11_SelfJoinAlwaysThreadError ==
    [][ (/\ ev'.op = "ThreadHandle.join" /\ pc[ev'.t] = "idle"
         /\ ev'.t = ident[ev'.a])
        => (ev'.res = "ThreadError" /\ pc' = pc) ]_vars

\* C11, amended: join() called by the thread the handle stands for always
\* fails and never blocks, and it changes nothing of the handle: with
\* ThreadError while the handle is joinable, with ValueError once it is not
\* (joinable is tested first).
C11_SelfJoinFails ==
    [][ (/\ ev'.op = "ThreadHandle.join" /\ pc[ev'.t] = "idle"
         /\ ev'.t = ident[ev'.a])
        => /\ ev'.res = IF joinable[ev'.a] # 0 THEN "ThreadError" ELSE "ValueError"
           /\ UNCHANGED <<pc, joinable, os_released, registered>> ]_vars

\* C11 happens: a thread has just called join() on its own handle, which is
\* still joinable after the thread forked, and got ThreadError.
C11_Witness ==
    /\ ev.op = "ThreadHandle.join" /\ ev.res = "ThreadError"
    /\ ev.t = ident[ev.a] /\ joinable[ev.a] = 1 /\ pc[ev.t] = "idle"
    /\ forks > 0

\* C12 as claimed: a handle is joinable exactly when it was made joinable
\* (every handle is) and no join() or detach() on it has succeeded yet.
C12_JoinableIffNoSuccess ==
    \A c \in LiveHandles:
        joinable[c] = 1 <=> outcome[c] \notin {"joined", "detached"}

\* C12, amended: a handle is joinable exactly when it was made joinable, no
\* join() or detach() on it has passed the joinable test yet (whether its OS
\* primitive then succeeded, failed or is still waiting) and fork recovery has
\* not invalidated it; a failed self-join leaves it joinable.
C12_JoinableIffUntouched ==
    /\ \A c \in LiveHandles: joinable[c] = 1 <=> outcome[c] = "none"
    /\ \A c \in Threads: ident[c] = 0 => joinable[c] = 0

\* C12 happens: the OS primitive of a join() or detach() failed on one
\* handle, which is not joinable, and another handle is still joinable after
\* its own thread's join() on it failed.
C12_Witness ==
    /\ \E c \in LiveHandles: outcome[c] = "failed" /\ joinable[c] = 0
    /\ ev.op = "ThreadHandle.join" /\ ev.res = "ThreadError"
    /\ ev.t = ident[ev.a] /\ joinable[ev.a] = 1

\* C13: in a process that has not forked, PyThread_join_thread or
\* PyThread_detach_thread is called at most once on the native handle of a
\* started joinable thread, also after the primitive failed, and exactly once
\* by the time the ThreadHandle has been destroyed.
C13_ReleasedExactlyOnce ==
    forks = 0 =>
        /\ \A c \in Threads: os_released[c] <= 1
        /\ \A c \in freed: os_released[handle[c]] = 1

\* C13 happens: with no fork, a handle whose join() or detach() failed in the
\* OS primitive has been destroyed, and the destructor has just detached
\* another handle, which was still joinable.
C13_Witness ==
    /\ forks = 0
    /\ \E c \in freed: outcome[c] = "failed" /\ os_released[handle[c]] = 1
    /\ ev.op = "ThreadHandle.dealloc" /\ ev.b = 1
    /\ ev.a \in freed /\ outcome[ev.a] = "none" /\ os_released[handle[ev.a]] = 1

\* C14: fork recovery, run in the child for the forking thread t, clears
\* joinable of every listed handle whose ident is not t and takes it off the
\* list, and leaves a handle whose ident is t as it was, flag and membership;
\* afterwards join() and detach() on a handle taken off fail with ValueError,
\* and destroying it calls no OS primitive and no llist_remove; no node is
\* ever unlinked twice.
C14_ForkRecovery ==
    [][ /\ ev'.op = "fork"
           => \A c \in registered:
                IF ident[c] # ev'.t
                THEN joinable'[c] = 0 /\ c \notin registered'
                ELSE joinable'[c] = joinable[c] /\ c \in registered'
        /\ \A c \in invalidated': joinable'[c] = 0 /\ c \notin registered'
        /\ \A c \in Threads: unlinks'[c] <= 1
        /\ (/\ ev'.op \in {"ThreadHandle.join", "ThreadHandle.detach"}
            /\ ev'.a \in invalidated)
           => ev'.res = "ValueError" /\ UNCHANGED <<os_released, pc>>
        /\ (ev'.op = "ThreadHandle.dealloc" /\ ev'.a \in invalidated)
           => UNCHANGED <<os_released, unlinks, registered>> ]_vars

\* C14 happens: a thread that has a handle of its own forked, another handle
\* was taken off the list, and the thread has just destroyed that one while
\* its own is still joinable and listed.
C14_Witness ==
    /\ ev.op = "ThreadHandle.dealloc" /\ ev.a \in invalidated
    /\ unlinks[ev.a] = 1 /\ os_released[handle[ev.a]] = 0
    /\ ident[ev.t] = ev.t /\ joinable[ev.t] = 1 /\ ev.t \in registered

\* ------------------------------------------- claims: thread-local objects
\* C15: a value written through thread-local object T on thread A is what a
\* later read of T on A returns while A and T live, and is never what a read
\* on another thread B returns: each read by a thread gives the value that
\* thread wrote last (AttributeError when it wrote none), no access goes
\* through a dangling local dict, the local dicts of two threads for T are
\* distinct objects, and a new local dict is not one that already exists.
C15_PerThreadValues ==
    [][ /\ ev'.op = "local.get" =>
              /\ ev'.res = IF wrote[ev'.t][ev'.a] = 0
                           THEN "AttributeError" ELSE "value"
              /\ ev'.b = wrote[ev'.t][ev'.a]
        /\ ev'.op = "local.set" => ev'.res = "None"
        /\ \A a \in Locals, t \in Threads, u \in Threads:
              (t # u /\ tdict'[t][a] # 0 /\ tdict'[u][a] # 0)
                  => tdict'[t][a] # tdict'[u][a]
        /\ \A a \in Locals, t \in Threads:
              (tdict[t][a] = 0 /\ tdict'[t][a] # 0)
                  => tdict'[t][a] \notin LiveIds
      ]_vars

\* Thread 2 reads back its own value from an object on which the main thread
\* has stored a different one.
C15_Witness ==
    /\ ev.op = "local.get" /\ ev.t = 2 /\ ev.res = "value" /\ ev.b = 2
    /\ wrote[MainThread][ev.a] = 1
    /\ tdict[MainThread][ev.a] # 0 /\ tdict[2][ev.a] # 0
    /\ ldict[tdict[MainThread][ev.a]] = 1

\* C16: destroying thread-local object T changes nothing of a different
\* thread-local object T2: in both steps of T's destruction T2 stays as it
\* is, every thread keeps its dummy for T2, T2's map of dummies and the
\* contents of T2's local dicts are unchanged, and a read of T2 afterwards
\* still finds, for each thread, the value that thread stored last.
C16_OtherObjectUntouched ==
    [][ ev'.op = "local.dealloc" =>
          \A a2 \in Locals \ {ev'.a}:
              /\ local_state'[a2] = local_state[a2]
              /\ dummies'[a2] = dummies[a2]
              /\ \A d \in dummies[a2]: ldict'[d] = ldict[d]
              /\ \A u \in Threads:
                    /\ tdict'[u][a2] = tdict[u][a2]
                    /\ wrote'[u][a2] = wrote[u][a2]
                    /\ (local_state[a2] = "alive" /\ tdict[u][a2] # 0) =>
                          /\ tdict'[u][a2] \in dummies'[a2]
                          /\ ldict'[tdict'[u][a2]] = wrote[u][a2]
      ]_vars

\* The object at address 1 has just been destroyed while the object at
\* address 2 holds a value of the main thread and another of thread 2.
C16_Witness ==
    /\ ev.op = "local.dealloc" /\ ev.res = "None" /\ ev.a = 1
    /\ local_state[1] = "free" /\ local_state[2] = "alive"
    /\ tdict[MainThread][2] # 0 /\ ldict[tdict[MainThread][2]] = 1
    /\ tdict[2][2] # 0 /\ ldict[tdict[2][2]] = 2

\* C17: when thread A terminates while thread-local object T is alive, then
\* with the end of A's teardown T's map of dummies has lost exactly A's
\* entry, A's state dict holds nothing, A's dummy and local dict for T are
\* referenced from nowhere, and the dummies and local dicts of the other
\* threads are as before.
C17_ThreadExitCleansUp ==
    [][ ev'.op = "thread_run" =>
          /\ tdict'[ev'.t] = NoDict
          /\ \A u \in Threads \ {ev'.t}: tdict'[u] = tdict[u]
          /\ \A a \in Locals:
                local_state[a] = "alive" =>
                    /\ dummies'[a] = dummies[a] \ {tdict[ev'.t][a]}
                    /\ tdict[ev'.t][a] # 0 => tdict[ev'.t][a] \notin LiveIds'
                    /\ \A d \in dummies'[a]: ldict'[d] = ldict[d]
      ]_vars

\* Thread 2 has just terminated holding a dummy for each of two live objects,
\* on one of which the main thread has a value stored.
C17_Witness ==
    /\ ev.op = "thread_run" /\ ev.t = 2 /\ ev.a = 2
    /\ \A a \in Locals: local_state[a] = "alive"
    /\ tdict[MainThread][1] # 0 /\ ldict[tdict[MainThread][1]] = 1
    /\ dummies[1] = {tdict[MainThread][1]}

C19_CountIffOwnerHolds ==
    (rlock_count > 0) <=>
        (rlock_owner # 0 /\ rlock_lock /\ rlock_holder = rlock_owner)

\* C20, as stated: when a blocking acquire() of a Lock or an RLock is
\* interrupted, the call ends with the interrupt's error, locked, owner and
\* count are unchanged, and the calling thread does not hold the mutex of
\* that lock.
C20_InterruptedCallerHoldsNothing ==
    [][ (ev'.res = "Interrupted" /\ pc[ev'.t] \in {"lock_wait", "rlock_wait"}) =>
          /\ UNCHANGED <<locked, rlock_owner, rlock_count>>
          /\ ev'.op = "Lock.acquire" => acquirer' # ev'.t
          /\ ev'.op = "RLock.acquire" => rlock_holder' # ev'.t
      ]_vars

\* C20, amended: when a blocking acquire() of a Lock or an RLock is
\* interrupted, the call ends with the interrupt's error and has acquired
\* nothing: locked, owner, count, both mutexes and who holds them are as
\* they were, so the caller holds the mutex afterwards only if it held it
\* already.
C20_InterruptedAcquiresNothing ==
    [][ \A t \in Threads:
          (pc[t] \in {"lock_wait", "rlock_wait"} /\ ev'.t = t
           /\ ev'.res = "Interrupted") =>
              /\ ev'.op = IF pc[t] = "lock_wait" THEN "Lock.acquire"
                          ELSE "RLock.acquire"
              /\ pc'[t] = "idle"
              /\ UNCHANGED <<lock_lock, locked, acquirer>>
              /\ UNCHANGED <<rlock_lock, rlock_owner, rlock_count, rlock_holder>>
      ]_vars

\* The main thread's acquire() of the RLock, which thread 2 holds twice, has
\* just been interrupted, while the main thread holds the Lock.
C20_Witness ==
    /\ ev.op = "RLock.acquire" /\ ev.res = "Interrupted" /\ ev.t = MainThread
    /\ pc[MainThread] = "idle"
    /\ rlock_owner = 2 /\ rlock_count = 2 /\ rlock_holder = 2
    /\ locked = 1 /\ acquirer = MainThread

\* ------------------------------------------- claims: acquire arguments
\* C21: acquire() of a Lock or an RLock with a negative timeout other than
\* the unset value -1, or with a timeout other than -1 together with
\* blocking=False, fails with ValueError and leaves the lock, its mutex and
\* the caller as they were, also when the caller owns the RLock.
C21_BadArgumentsValueError ==
    [][ \A t \in Threads:
          (ev'.t = t /\ pc[t] = "idle"
           /\ ev'.op \in {"Lock.acquire", "RLock.acquire"}
           /\ \/ ev'.b < 0 /\ ev'.b # -1
              \/ ev'.a = 0 /\ ev'.b # -1) =>
              /\ ev'.res = "ValueError"
              /\ pc'[t] = "idle"
              /\ UNCHANGED <<lock_lock, locked, acquirer>>
              /\ UNCHANGED <<rlock_lock, rlock_owner, rlock_count, rlock_holder>>
      ]_vars

\* The owner of the RLock has just called acquire(timeout=-2).
C21_Witness ==
    /\ ev.op = "RLock.acquire" /\ ev.res = "ValueError"
    /\ ev.a = 1 /\ ev.b = -2
    /\ rlock_owner = ev.t /\ rlock_count = 2 /\ rlock_holder = ev.t

C23_OwnerAcquire ==
    [][ /\ \A t \in Threads:
              (ev'.t = t /\ ev'.op = "RLock.acquire" /\ pc[t] = "idle"
               /\ rlock_is_owned_by(t)
               /\ lock_acquire_parse_args(ev'.a = 1, ev'.b).err = "ok") =>
                  /\ pc'[t] = "idle"
                  /\ UNCHANGED <<rlock_lock, rlock_owner, rlock_holder>>
                  /\ IF rlock_count = ULONG_MAX
                     THEN ev'.res = "OverflowError" /\ rlock_count' = rlock_count
                     ELSE ev'.res = "True" /\ rlock_count' = rlock_count + 1
                  /\ rlock_count' > 0 /\ rlock_is_owned_by(t)'
      ]_vars

\* The owner's acquire() at the largest count has just failed.
C23_Witness ==
    /\ ev.op = "RLock.acquire" /\ ev.res = "OverflowError"
    /\ rlock_owner = ev.t /\ rlock_count = ULONG_MAX /\ rlock_lock
    /\ depth[ev.t] = ULONG_MAX

\* C24: _release_save() on an RLock whose count is 0 fails with RuntimeError
\* and changes nothing: owner and count stay and the mutex is not released,
\* also when a waiter that has just been given the mutex holds it.
C24_SaveUnownedFails ==
    [][ \A t \in Threads:
          (ev'.t = t /\ ev'.op = "RLock._release_save" /\ pc[t] = "idle"
           /\ rlock_count = 0) =>
              /\ ev'.res = "RuntimeError"
              /\ pc'[t] = "idle"
              /\ UNCHANGED <<rlock_lock, rlock_owner, rlock_count, rlock_holder>>
      ]_vars

\* _release_save() has just failed while the count is 0 and the mutex is
\* held by a waiter that has not yet returned from acquire().
C24_Witness ==
    /\ ev.op = "RLock._release_save" /\ ev.res = "RuntimeError"
    /\ rlock_count = 0 /\ rlock_owner = 0 /\ rlock_lock
    /\ \E u \in Threads \ {ev.t}: pc[u] = "rlock_got" /\ rlock_holder = u

C26_ReinitUnlocks ==
    [][ /\ (ev'.op = "Lock._at_fork_reinit" /\ ev'.res = "None") =>
              /\ ~lock_lock' /\ locked' = 0
              /\ UNCHANGED pc
        /\ (ev'.op = "RLock._at_fork_reinit" /\ ev'.res = "None") =>
              /\ ~rlock_lock' /\ rlock_owner' = 0 /\ rlock_count' = 0
              /\ \A t \in Threads: ~rlock_is_owned_by(t)'
              /\ UNCHANGED pc
        /\ (/\ ev.op = "Lock._at_fork_reinit" /\ ev.res = "None"
            /\ ev'.op = "Lock.acquire" /\ ev'.a = 0
            /\ lock_acquire_parse_args(FALSE, ev'.b).err = "ok") =>
              /\ ev'.res = "True"
              /\ lock_lock' /\ locked' = 1
        /\ (/\ ev.op = "RLock._at_fork_reinit" /\ ev.res = "None"
            /\ ev'.op = "RLock.acquire" /\ ev'.a = 0
            /\ lock_acquire_parse_args(FALSE, ev'.b).err = "ok") =>
              /\ ev'.res = "True"
              /\ rlock_lock' /\ rlock_owner' = ev'.t /\ rlock_count' = 1
      ]_vars

\* Thread 1 has just reinitialised an RLock that thread 2 held recursively,
\* while thread 2 holds the Lock as well.
C26_Witness ==
    /\ ev = Event(1, "RLock._at_fork_reinit", "None", 2, 2)
    /\ ~rlock_lock /\ rlock_owner = 0 /\ rlock_count = 0 /\ rlock_holder = 0
    /\ locked = 1 /\ acquirer = 2

C28_LiveThreadCount ==
    /\ [](/\ nthreads = Cardinality({c \in Threads: incs[c] > decs[c]})
          /\ nthreads >= 0
          /\ \A c \in Threads:
                /\ incs[c] <= 1 /\ decs[c] <= incs[c]
                /\ incs[c] > decs[c] <=> stage[c] = "call"
                /\ stage[c] \in {"teardown", "done"} =>
                      incs[c] = 1 /\ decs[c] = 1
                /\ stage[c] \in {"none", "boot", "bound", "skipped"} =>
                      incs[c] = 0 /\ decs[c] = 0
          /\ ev.op = "_count" => ev.a = nthreads)
    /\ [][ \A c \in Threads:
             (ev'.t = c /\ ev'.op = "thread_run.result") =>
                 /\ ev'.res \in Outcomes
                 /\ nthreads' = nthreads - 1
                 /\ decs'[c] = incs'[c]
                 /\ \A u \in Threads \ {c}:
                       incs'[u] = incs[u] /\ decs'[u] = decs[u]
         ]_vars

\* The function of thread 2 has just ended with SystemExit while thread 3
\* is inside its own: the counter is back at 1.
C28_Witness ==
    /\ ev = Event(2, "thread_run.result", "SystemExit", 0, 0)
    /\ nthreads = 1 /\ stage[3] = "call"
    /\ incs[2] = 1 /\ decs[2] = 1 /\ incs[3] = 1 /\ decs[3] = 0

\* C29: when the function of a spawned thread ends with an error, no other
\* thread is touched by it: SystemExit is dropped without a report, any
\* other error is reported once through the unraisable channel, and a plain
\* return reports nothing; in each case the same end follows: the bootstate's
\* references are released and the counter is decremented in that step, and
\* the thread's last step clears and deletes its thread state and ends the
\* OS thread without a further report.
C29_ErrorsStayInThread ==
    /\ [][ \A c \in Threads:
             /\ (ev'.t = c /\ ev'.op = "thread_run.result") =>
                   /\ stage[c] = "call" /\ stage'[c] = "teardown"
                   /\ unraisable'[c] =
                         unraisable[c] + (IF ev'.res = "error" THEN 1 ELSE 0)
                   /\ refs[c] = "held" /\ refs'[c] = "released"
                   /\ nthreads' = nthreads - 1
                   /\ \A u \in Threads \ {c}:
                         /\ pc'[u] = pc[u] /\ loc'[u] = loc[u]
                         /\ thr'[u] = thr[u] /\ stage'[u] = stage[u]
                         /\ unraisable'[u] = unraisable[u]
             /\ (ev'.t = c /\ ev'.op = "thread_run" /\ stage[c] = "teardown") =>
                   /\ stage'[c] = "done" /\ thr'[c] = "exited"
                   /\ tstate[c] = "bound" /\ tstate'[c] = "deleted"
                   /\ tdict'[c] = NoDict
                   /\ refs'[c] = "released" /\ decs'[c] = 1
                   /\ unraisable' = unraisable
                   /\ nthreads' = nthreads
             /\ (ev'.op \notin {"thread_run.result"}) =>
                   /\ unraisable' = unraisable
                   /\ ev'.res \notin {"error", "SystemExit"}
         ]_vars
    /\ [](\A c \in Threads: unraisable[c] <= 1)

\* Thread 2, whose function raised an error that was reported once, has
\* just ended; the main thread waits in join() for it and thread 3 runs on.
C29_Witness ==
    /\ ev.t = 2 /\ ev.op = "thread_run" /\ ev.res = "exit"
    /\ unraisable = [c \in Threads |-> IF c = 2 THEN 1 ELSE 0]
    /\ stage[2] = "done" /\ thr[2] = "exited" /\ tstate[2] = "deleted"
    /\ refs[2] = "released"
    /\ pc[MainThread] = "join_wait" /\ loc[MainThread][1] = 2
    /\ stage[3] = "call" /\ nthreads = 1

\* C30 as stated: a trampoline that starts while the runtime is finalizing
\* exits at once: it does not bind the thread state, does not change the
\* live-thread counter, does not run the function, does not clear or delete
\* the thread state, and does not leak the references of its bootstate.
C30_MustExitLeaksNothing ==
    [][ \A c \in Threads:
          (ev'.t = c /\ ev'.op = "thread_run.enter" /\ finalizing) =>
              /\ ev'.res = "must_exit"
              /\ stage[c] = "boot" /\ stage'[c] = "skipped"
              /\ thr'[c] = "exited"
              /\ tstate[c] = "new" /\ tstate' = tstate
              /\ nthreads' = nthreads /\ incs' = incs /\ decs' = decs
              /\ unraisable' = unraisable
              /\ tdict' = tdict /\ dummies' = dummies /\ ldict' = ldict
              /\ refs[c] = "held"
              /\ refs'[c] # "leaked"
      ]_vars

\* C30, amended: the same, except for the references: the bootstate is freed
\* without Py_DECREF, so its references to func, args and kwargs are leaked.
C30_MustExitTouchesNothing ==
    [][ \A c \in Threads:
          (ev'.t = c /\ ev'.op = "thread_run.enter" /\ finalizing) =>
              /\ ev'.res = "must_exit"
              /\ stage[c] = "boot" /\ stage'[c] = "skipped"
              /\ thr'[c] = "exited"
              /\ tstate[c] = "new" /\ tstate' = tstate
              /\ nthreads' = nthreads /\ incs' = incs /\ decs' = decs
              /\ unraisable' = unraisable
              /\ tdict' = tdict /\ dummies' = dummies /\ ldict' = ldict
              /\ refs[c] = "held"
              /\ refs'[c] = thread_bootstate_free(0)
              /\ refs'[c] = "leaked"
      ]_vars

\* Thread 2 has just left its trampoline because the runtime is finalizing,
\* while thread 3 is inside its function.
C30_Witness ==
    /\ ev = Event(2, "thread_run.enter", "must_exit", 0, 0)
    /\ finalizing
    /\ stage[2] = "skipped" /\ thr[2] = "exited"
    /\ tstate[2] = "new" /\ refs[2] = "leaked"
    /\ stage[3] = "call" /\ nthreads = 1

\* C31: a start that fails ends in ThreadError and leaves no trace: no new
\* thread state stays in the interpreter's list, the bootstate's references
\* to func and args are released, the live-thread counter is unchanged, no
\* thread runs, and the handle made for a joinable start is off the registry
\* again without a call of PyThread_detach_thread.
C31_FailedStartLeavesNoTrace ==
    [][ \A c \in Threads:
          (/\ ev'.op \in {"start_joinable_thread", "start_new_thread"}
           /\ ev'.a = c /\ ev'.res # "handle" /\ ev'.res # "ident") =>
              /\ ev'.res = "ThreadError"
              /\ \A u \in Threads:
                    tstate'[u] \in {"new", "bound", "cleared"} =>
                        tstate[u] \in {"new", "bound", "cleared"}
              /\ refs'[c] \notin {"held", "leaked"}
              /\ nthreads' = nthreads
              /\ stage' = stage /\ thr' = thr
              /\ registered' = registered /\ os_released' = os_released
              /\ ident' = ident /\ handle' = handle /\ joinable' = joinable
      ]_vars

\* C32: the end of a thread releases its sentinel: when the thread state of
\* c is torn down while its sentinel exists and is locked, the lock is
\* unlocked and its mutex free afterwards; when c has no sentinel, or the
\* sentinel is gone or not locked, the teardown leaves the lock as it is
\* and the thread ends all the same; and when the teardown has freed the
\* mutex while threads wait for it in acquire(), the mutex is taken again,
\* by a waiter or a newcomer, unless every waiter has given up; a sole
\* waiter without timeout sees the lock locked again unless a signal
\* handler's exception ends its wait.
C32_SentinelReleased ==
    /\ [][ \A c \in Threads:
             (ev'.t = c /\ ev'.op = "thread_run" /\ stage[c] = "teardown") =>
                 /\ stage'[c] = "done" /\ thr'[c] = "exited"
                 /\ tstate'[c] = "deleted"
                 /\ IF on_delete[c] = "set" /\ locked = 1
                    THEN ~lock_lock' /\ locked' = 0
                    ELSE UNCHANGED <<lock_lock, locked>>
                 /\ on_delete'[c] # "set"
                 /\ UNCHANGED <<pc, loc>>
         ]_vars
    /\ (/\ ev.op = "thread_run" /\ on_delete[ev.t] = "released" /\ ~lock_lock
        /\ \E t \in Threads: pc[t] = "lock_wait")
          ~> (lock_lock \/ \A t \in Threads: pc[t] # "lock_wait")
    /\ \A t \in Threads:
          (/\ ev.op = "thread_run" /\ on_delete[ev.t] = "released" /\ ~lock_lock
           /\ pc[t] = "lock_wait" /\ loc[t][2] = -1
           /\ \A u \in Threads \ {t}: pc[u] # "lock_wait")
              ~> (locked = 1 \/ ev = Event(t, "Lock.acquire", "Interrupted", 1, -1))

\* Thread 2 had set and acquired its sentinel and has ended; the main thread,
\* which waited for the sentinel in acquire() meanwhile, has just acquired it.
C32_Witness ==
    /\ ev = Event(MainThread, "Lock.acquire", "True", 1, -1)
    /\ on_delete[2] = "released" /\ thr[2] = "exited" /\ stage[2] = "done"
    /\ locked = 1 /\ lock_lock /\ acquirer = MainThread

\* C33: every structural operation on the shared registries is made under
\* the runtime's head lock, held for the whole operation: a handle is linked
\* into or taken off the registry only by a thread that holds the lock, the
\* walk of local_clear over the thread states holds it from the first
\* thread state to the last, the removal of the dummy from each thread
\* state's dict included, and fork recovery holds it while it walks the
\* handles.
C33_RegistryUnderHeadLock ==
    /\ [](\A t \in Threads:
            (pc[t] = "clear_pop" \/ (pc[t] = "local_clear" /\ loc[t][2] # 0))
                => head_lock = t)
    /\ [][ /\ registered' # registered =>
                 (head_lock = ev'.t /\ head_lock' = ev'.t)
           /\ (ev'.op = "local_clear" /\ ev'.res = "PyDict_Pop") =>
                 head_lock = ev'.t
           /\ ev'.op = "fork" => head_lock' = ev'.t
         ]_vars

\* C34: a release() wakes a blocked acquirer.  Between two releases at most
\* one thread obtains the mutex; when a held Lock is released while a thread
\* is blocked in acquire() without timeout, the mutex is obtained again, by
\* a blocked acquirer or by one that arrives; and a thread blocked in
\* acquire() without timeout returns True (the main thread unless a signal
\* handler's exception ends its wait) provided the mutex is free again and
\* again.
C34_ReleaseWakes ==
    /\ [](Cardinality({t \in Threads: pc[t] = "lock_got"})
            + (IF locked = 1 THEN 1 ELSE 0) <= 1)
    /\ [][ (~lock_lock /\ lock_lock') =>
              /\ ev'.op = "Lock.acquire" /\ ev'.res \in {"True", "woken"}
              /\ \A u \in Threads \ {ev'.t}: pc'[u] = pc[u] ]_vars
    /\ (/\ ev.op = "Lock.release" /\ ev.res = "None"
        /\ \E t \in Threads \ {MainThread}: pc[t] = "lock_wait" /\ loc[t][2] = -1)
          ~> (acquirer # 0 \/ \E t \in Threads: pc[t] = "lock_got")
    /\ \A t \in Threads:
          ([]<>(~lock_lock)) =>
             ((pc[t] = "lock_wait" /\ loc[t][2] = -1)
                ~> (\/ ev = Event(t, "Lock.acquire", "True", 1, -1)
                    \/ ev = Event(t, "Lock.acquire", "Interrupted", 1, -1)))

\* Threads 1 and 3 were blocked in acquire() without timeout on a Lock that
\* thread 2 had acquired; the Lock was released, and thread 3 has just been
\* given the mutex while thread 1 is still blocked.
C34_Witness ==
    /\ ev = Event(3, "Lock.acquire", "woken", 1, -1)
    /\ pc[3] = "lock_got" /\ lock_lock /\ acquirer = 0
    /\ pc[MainThread] = "lock_wait" /\ loc[MainThread][2] = -1

C37_InitializerOnce ==
    [][ \A t \in Threads, a \in Locals:
          (ev'.t = t /\ ev'.a = a /\ ev'.op \in {"local.init", "local.access"}) =>
              /\ (ev'.op = "local.init") <=> (inits[t][a] = "none")
              /\ \A u \in Threads \ {t}:
                    inits'[u] = inits[u] /\ tdict'[u] = tdict[u]
      ]_vars

\* C37, amended: an access by a thread calls the initializer exactly when no
\* call of it for that thread and object has succeeded yet, that is on the
\* thread's first access and again on each access that follows a call that
\* failed; once it has succeeded for the thread it is not called again; the
\* creating thread's call is the one made when the object is made; and an
\* access by one thread never calls it for another thread or changes
\* another thread's state.
C37_InitializerUntilItSucceeds ==
    /\ [](\A t \in Threads, a \in Locals:
            (inits[t][a] = "ok") <=> (local_state[a] = "alive" /\ tdict[t][a] # 0))
    /\ [][ \A t \in Threads, a \in Locals:
             (ev'.t = t /\ ev'.a = a
              /\ ev'.op \in {"local.init", "local.access"}) =>
                 /\ (ev'.op = "local.init") <=> (inits[t][a] # "ok")
                 /\ \A u \in Threads \ {t}:
                       inits'[u] = inits[u] /\ tdict'[u] = tdict[u]
         ]_vars

\* Thread 2 has just had the initializer called a second time, with success,
\* on its access to the object at 1 after a first call that failed, and the
\* main thread, which made the object, keeps its own dict.
C37_Witness ==
    /\ ev = Event(2, "local.init", "ok", 1, 1)
    /\ inits[2][1] = "ok" /\ inits[MainThread][1] = "ok"
    /\ tdict[2][1] # 0 /\ tdict[MainThread][1] # 0 /\ tdict[2][1] # tdict[MainThread][1]

\* C38: _release_save() gives the lock up only for its owner.  Called by a
\* thread that does not own the RLock while another thread owns it, it
\* fails with RuntimeError and leaves owner, count and mutex as they are.
C38_SaveOnlyByOwner ==
    [][ (/\ ev'.op = "RLock._release_save"
         /\ rlock_count > 0 /\ rlock_owner \notin {0, ev'.t}) =>
            /\ ev'.res = "RuntimeError"
            /\ UNCHANGED <<rlock_owner, rlock_count, rlock_lock>>
      ]_vars

\* C39: whenever no thread is inside an operation, for each live
\* localobject the entries of its dummies dict are, one to one, the dummies
\* that the live threads keep under the object's key in their thread-state
\* dicts: every entry belongs to exactly one running thread, every thread
\* that keeps a dummy has its entry, the local dict the dummy points to is
\* the one in the entry, and no two threads share one.
C39_DummiesMatchThreads ==
    (\A t \in Threads: pc[t] = "idle") =>
        \A a \in Locals:
            local_state[a] = "alive" =>
                /\ dummies[a] = {tdict[t][a]: t \in {u \in Threads: tdict[u][a] # 0}}
                /\ \A t \in Threads:
                      tdict[t][a] # 0 =>
                          /\ thr[t] = "running"
                          /\ ~Dangling(t, a)
                          /\ \A u \in Threads \ {t}: tdict[u][a] # tdict[t][a]

\* Two threads have used the object at 1 and thread 2 has ended: the object
\* lives on with the entry of the main thread alone.
C39_Witness ==
    /\ ev.op = "thread_run" /\ ev.t = 2 /\ thr[2] = "exited"
    /\ local_state[1] = "alive" /\ wrote[MainThread][1] # 0
    /\ dummies[1] = {tdict[MainThread][1]} /\ tdict[2][1] = 0
    /\ local_state[2] = "alive" /\ dummies[2] = {}

\* C40: the registry holds exactly the handles that were made and have
\* neither been destroyed nor been taken off by fork recovery.  A handle is
\* linked once, when it is made; it is unlinked at most once, by fork
\* recovery or by its destructor, never by both; and a destroyed handle is
\* not in the registry.
C40_RegistryExact ==
    /\ [](/\ registered = ({c \in Threads: ident[c] # 0} \ freed) \ invalidated
          /\ registered \cap freed = {}
          /\ \A c \in Threads:
                /\ unlinks[c] <= 1
                /\ unlinks[c] = 1 <=> (c \in freed \/ c \in invalidated))
    /\ [][ \A c \in Threads:
             /\ (c \in registered' /\ c \notin registered) =>
                   /\ ev'.op = "start_joinable_thread" /\ ev'.a = c
                   /\ ident[c] = 0 /\ unlinks[c] = 0
             /\ (c \in registered /\ c \notin registered') =>
                   /\ unlinks'[c] = unlinks[c] + 1
                   /\ \/ ev'.op = "fork" /\ ident[c] # ev'.t
                      \/ ev'.op = "ThreadHandle.dealloc" /\ ev'.a = c
             /\ (ev'.op = "ThreadHandle.dealloc" /\ ev'.a = c
                 /\ c \in invalidated) => unlinks'[c] = unlinks[c]
         ]_vars

\* Thread 2 forked while the handles of threads 2 and 3 were in the registry:
\* fork recovery took the handle of thread 3 off, and that handle has now
\* been destroyed while the handle of thread 2 is still registered.
C40_Witness ==
    /\ ev.op = "ThreadHandle.dealloc" /\ ev.a = 3
    /\ 3 \in invalidated /\ 3 \in freed /\ unlinks[3] = 1
    /\ registered = {2} /\ forks = 1

====
